---- MODULE Spec2Model ----
(***************************************************************************)
(* llamacrew: crew construction (dependency-graph validation), the task    *)
(* state machine and the workflow engine.                                  *)
(*                                                                         *)
(* Tasks are identified by their task_id (unique by construction, uuid4),  *)
(* agents by their agent_id.  Python's None is the string "None".          *)
(***************************************************************************)
EXTENDS Integers, Sequences, FiniteSets, TLC

\* ---------------------------------------------------------------- bounds
\* Number of Task objects that exist (in the crew's list or only referenced
\* as a dependency).
NumTasks == 3
\* Largest number of dependency edges among the Task objects.
MaxEdges == 3

TaskIds == 1..NumTasks
AgentIds == {"a1", "a2"}
NoneVal == "None"

\* TaskStatus (core/task.py)
PENDING == "pending"
IN_PROGRESS == "in_progress"
COMPLETED == "completed"
FAILED == "failed"
SKIPPED == "skipped"
TaskStatus == {PENDING, IN_PROGRESS, COMPLETED, FAILED, SKIPPED}

\* ProcessType (core/crew.py)
SEQUENTIAL == "sequential"
PARALLEL == "parallel"
HIERARCHICAL == "hierarchical"
ProcessType == {SEQUENTIAL, PARALLEL, HIERARCHICAL}

VARIABLES
    agents,          \* Crew.agents, as the set of their agent_ids
    tasks,           \* Crew.tasks, the list of task_ids
    task_agent,      \* Task.agent (its agent_id), per Task object
    dependencies,    \* Task.dependencies, per Task object: a list of task_ids
    status,          \* Task.status
    result,          \* Task.result
    error,           \* Task.error
    process,         \* Crew.process
    memory,          \* Crew.memory
    memory_backend,  \* TRUE iff kickoff() was handed a memory backend object
    inputs,          \* the inputs mapping handed to kickoff()/execute()
    scratchpad,      \* the data held by WorkflowEngine.scratchpad
    pc,              \* position of the caller / of the engine
    crew_error,      \* the ValueError raised by Crew.__post_init__, or None
    task,            \* the Task _execute_task is working on (0: none)
    tasks_output,    \* _execute_sequential's local list
    completed_tasks, \* _execute_sequential's local counter
    crew_output,     \* <<CrewOutput>> once execute() has returned, else <<>>
    raised,          \* the exception execute() raised, or None
    store,           \* the memory store under test: its class
    scratch_data,    \* Scratchpad._data
    cache,           \* LlamaStackMemoryBackend._cache
    messages,        \* the messages of the remote conversation
    call,            \* the last call made on the store
    ret,             \* what the last call returned
    written,         \* per key, what the calls made so far wrote last
    calls,           \* number of calls made on the store
    queried,         \* TRUE iff the last call asked the remote for the messages
    checkpoint,      \* the checkpoint file: <<>> (no file) or <<its content>>
    loaded,          \* <<the crew CheckpointManager.load returned>>, else <<>>
    load_error,      \* the exception load raised, or None
    prompt,          \* <<the prompt of the last execute_turn call>>, else <<>>
    callers,         \* per concurrent caller of increment: where it is, what it read
    checkpoint_enabled, \* Crew.checkpoint_enabled, handed to the engine
    retry,           \* the retry wrapper under test: its arguments, locals and what it did
    breaker,         \* the CircuitBreaker under test: its fields
    now,             \* time.time()
    breaker_call     \* the last use of the breaker: how many so far, func invoked?, how it ended

\* The checkpoint file and what was loaded from it.
ckptvars == <<checkpoint, loaded, load_error>>

\* The state of the components exercised on their own.
auxvars == <<callers, retry, breaker, now, breaker_call>>

\* The memory store under test, what was loaded from a checkpoint and the
\* crew's checkpoint flag: what the body of the engine's loop leaves alone.
loopvars == <<store, scratch_data, cache, messages, call, ret, written, calls,
              queried, loaded, load_error, auxvars, checkpoint_enabled>>

\* The same with the checkpoint file.
storevars == <<loopvars, checkpoint>>

\* What the steps of a crew other than the executor call leave alone.
memvars == <<storevars, prompt>>

vars == <<agents, tasks, task_agent, dependencies, status, result, error,
          process, memory, memory_backend, inputs, scratchpad, pc, crew_error,
          task, tasks_output, completed_tasks, crew_output, raised, memvars>>

\* No checkpoint file is written or read.
NoCheckpoint ==
    /\ checkpoint = <<>>
    /\ loaded = <<>>
    /\ load_error = NoneVal

\* No executor call was made.
NoPrompt == prompt = <<>>

\* No concurrent callers of the store.
NoCallers == callers = <<>>

\* No retry wrapper is running.
NoRetry == retry = <<>>

\* No circuit breaker is in use.
NoBreaker == breaker = <<>>

\* The clock is not read.
NoClock == now = 0

\* No call went through a circuit breaker.
NoBreakerCall == breaker_call = <<>>

\* None of the components exercised on their own is in use.
NoAux ==
    /\ NoCallers
    /\ NoRetry
    /\ NoBreaker
    /\ NoClock
    /\ NoBreakerCall

\* No memory store is under test.
NoStore ==
    /\ NoCheckpoint
    /\ store = "none"
    /\ scratch_data = <<>>
    /\ cache = <<>>
    /\ messages = <<>>
    /\ call = <<>>
    /\ ret = <<>>
    /\ written = <<>>
    /\ calls = 0
    /\ queried = FALSE
    /\ NoAux

\* ------------------------------------------------------------- helpers
Range(s) == {s[i] : i \in 1..Len(s)}

\* The elements of the set S of integers as a list, ascending or descending.
RECURSIVE SortedSeq(_, _)
SortedSeq(S, asc) ==
    IF S = {} THEN <<>>
    ELSE LET x == IF asc THEN CHOOSE m \in S : \A y \in S : m <= y
                         ELSE CHOOSE m \in S : \A y \in S : m >= y
         IN <<x>> \o SortedSeq(S \ {x}, asc)

\* The dependency lists the model draws: every set of at most MaxEdges edges
\* over the Task objects (self-edges included), each task's dependencies
\* listed in ascending or in descending order.
EdgeSets == {E \in SUBSET (TaskIds \X TaskIds) : Cardinality(E) <= MaxEdges}
DepsOf(E, asc) ==
    [t \in TaskIds |-> SortedSeq({d \in TaskIds : <<t, d>> \in E}, asc)]
DependencyGraphs == {DepsOf(E, asc) : E \in EdgeSets, asc \in BOOLEAN}

\* ------------------------------------------- Crew._validate_task_dependencies
\* has_cycle(task, visited, rec_stack): the two sets are shared and mutated by
\* the recursion, so the operator returns them with the answer.
RECURSIVE has_cycle(_, _, _, _), has_cycle_deps(_, _, _, _, _)

\* has_cycle without "rec_stack.remove(task.task_id)".
has_cycle_keeps_stack(deps, t, visited, rec_stack) ==
    has_cycle_deps(deps, t, 1, visited \cup {t}, rec_stack \cup {t})

has_cycle(deps, t, visited, rec_stack) ==
    LET r == has_cycle_deps(deps, t, 1, visited \cup {t}, rec_stack \cup {t})
    IN IF r.found THEN r
       ELSE [found |-> FALSE, visited |-> r.visited,
             rec_stack |-> r.rec_stack \ {t}]

\* The "for dep in task.dependencies" loop of has_cycle, from position i on.
has_cycle_deps(deps, t, i, visited, rec_stack) ==
    IF i > Len(deps[t])
    THEN [found |-> FALSE, visited |-> visited, rec_stack |-> rec_stack]
    ELSE LET dep == deps[t][i] IN
         IF dep \notin visited
         THEN LET r == has_cycle(deps, dep, visited, rec_stack)
              IN IF r.found THEN r
                 ELSE has_cycle_deps(deps, t, i + 1, r.visited, r.rec_stack)
         ELSE IF dep \in rec_stack
              THEN [found |-> TRUE, visited |-> visited, rec_stack |-> rec_stack]
              ELSE has_cycle_deps(deps, t, i + 1, visited, rec_stack)

\* The "for task in self.tasks" loop, from position i on: TRUE iff it raises
\* ValueError("Circular dependency detected in tasks").
RECURSIVE validate_roots(_, _, _, _)
validate_roots(tsks, deps, i, visited) ==
    IF i > Len(tsks) THEN FALSE
    ELSE IF tsks[i] \in visited THEN validate_roots(tsks, deps, i + 1, visited)
    ELSE LET r == has_cycle(deps, tsks[i], visited, {})
         IN IF r.found THEN TRUE
            ELSE validate_roots(tsks, deps, i + 1, r.visited)

validate_task_dependencies(tsks, deps) == validate_roots(tsks, deps, 1, {})

\* The dependency relation as a relation: the tasks reachable from the set S
\* along dependency edges (S included), and whether a cycle lies among the
\* tasks the crew's list reaches.
RECURSIVE Reach(_, _)
Reach(S, deps) ==
    LET step == S \cup UNION {Range(deps[t]) : t \in S}
    IN IF step = S THEN S ELSE Reach(step, deps)

Cyclic(tsks, deps) ==
    \E t \in Reach(Range(tsks), deps) : t \in Reach(Range(deps[t]), deps)

\* ------------------------------------------------------- Crew.__post_init__
ERR_NO_AGENTS == "Crew must have at least one agent"
ERR_NO_TASKS == "Crew must have at least one task"
ERR_AGENT == "Task agent not in crew agents"
ERR_CIRCULAR == "Circular dependency detected in tasks"

\* The ValueError message __post_init__ raises, or None when it returns.
post_init(ags, tsks, tagent, deps) ==
    IF ags = {} THEN ERR_NO_AGENTS
    ELSE IF tsks = <<>> THEN ERR_NO_TASKS
    ELSE IF \E i \in 1..Len(tsks) : tagent[tsks[i]] \notin ags THEN ERR_AGENT
    ELSE IF validate_task_dependencies(tsks, deps) THEN ERR_CIRCULAR
    ELSE NoneVal

\* Crew(agents, tasks, ...): the dataclass stores its fields, then
\* __post_init__ validates them.
Construct ==
    /\ pc = "new"
    /\ crew_error' = post_init(agents, tasks, task_agent, dependencies)
    /\ pc' = IF crew_error' = NoneVal THEN "constructed" ELSE "rejected"
    /\ UNCHANGED memvars
    /\ UNCHANGED <<agents, tasks, task_agent, dependencies, status, result,
                   error, process, memory, memory_backend, inputs, scratchpad,
                   task, tasks_output, completed_tasks, crew_output, raised>>

\* The crew's task list: the first k Task objects, in order (every list of
\* distinct tasks is this one up to the naming of the tasks).
TaskLists == {[i \in 1..k |-> i] : k \in 0..NumTasks}

\* Arguments handed to the Crew constructor: any agent list, any task list,
\* any binding of tasks to agents, any dependency lists; fresh tasks.
InitCrew ==
    /\ agents \in SUBSET AgentIds
    /\ tasks \in TaskLists
    /\ task_agent \in [TaskIds -> AgentIds]
    /\ dependencies \in DependencyGraphs
    /\ status = [t \in TaskIds |-> PENDING]
    /\ result = [t \in TaskIds |-> NoneVal]
    /\ error = [t \in TaskIds |-> NoneVal]
    /\ process = SEQUENTIAL
    /\ memory = TRUE
    /\ memory_backend = FALSE
    /\ checkpoint_enabled = FALSE
    /\ inputs = <<>>
    /\ scratchpad = <<>>
    /\ pc = "new"
    /\ crew_error = NoneVal
    /\ task = 0
    /\ tasks_output = <<>>
    /\ completed_tasks = 0
    /\ crew_output = <<>>
    /\ raised = NoneVal
    /\ NoStore
    /\ NoPrompt

NextCrew == Construct

SpecCrew == InitCrew /\ [][NextCrew]_vars

\* ------------------------------------------------------------- core/task.py
\* is_ready counting a skipped dependency as done, as is_complete does.
all_completed_or_skipped(deps_t, st, i) ==
    \A j \in i..Len(deps_t) : st[deps_t[j]] \in {COMPLETED, SKIPPED}

\* Task.is_ready: all(dep.status == COMPLETED for dep in self.dependencies),
\* evaluated along the dependency list from position i on.
RECURSIVE all_completed(_, _, _)
all_completed(deps_t, st, i) ==
    IF i > Len(deps_t) THEN TRUE
    ELSE IF st[deps_t[i]] = COMPLETED THEN all_completed(deps_t, st, i + 1)
    ELSE FALSE

is_ready(t, deps, st) == all_completed(deps[t], st, 1)

\* Task.mark_in_progress / mark_completed / mark_failed, as the new value of
\* the field they assign.
mark_in_progress(t, st) == [st EXCEPT ![t] = IN_PROGRESS]
mark_completed_status(t, st) == [st EXCEPT ![t] = COMPLETED]
mark_completed_result(t, res, output) == [res EXCEPT ![t] = output]
\* (a mark_failed that puts the task back to pending, to be tried again)
mark_failed_status_retry(t, st) == [st EXCEPT ![t] = PENDING]
mark_failed_status(t, st) == [st EXCEPT ![t] = FAILED]
mark_failed_error(t, err, msg) == [err EXCEPT ![t] = msg]

\* Task.mark_skipped
mark_skipped(t, st) == [st EXCEPT ![t] = SKIPPED]

\* ------------------------------------------------------------- core/crew.py
\* get_ready_tasks without the readiness test, and without the status test.
get_ready_tasks_pending(tsks, deps, st) ==
    SelectSeq(tsks, LAMBDA t : st[t] = PENDING)
get_ready_tasks_any_status(tsks, deps, st) ==
    SelectSeq(tsks, LAMBDA t : all_completed(deps[t], st, 1))

\* Crew.get_ready_tasks: the list comprehension over self.tasks.
get_ready_tasks(tsks, deps, st) ==
    SelectSeq(tsks, LAMBDA t : st[t] = PENDING /\ is_ready(t, deps, st))

\* is_complete that counts completed tasks only.
is_complete_completed_only(tsks, st) ==
    \A i \in 1..Len(tsks) : st[tsks[i]] = COMPLETED

\* Crew.is_complete
is_complete(tsks, st) ==
    \A i \in 1..Len(tsks) : st[tsks[i]] \in {COMPLETED, SKIPPED}

\* Crew.has_failed_tasks
has_failed_tasks(tsks, st) ==
    \E i \in 1..Len(tsks) : st[tsks[i]] = FAILED

\* ---------------------------------------------------- orchestration/engine.py
\* What the collaborators hand back: the text of a turn, the message of the
\* exception of a failed turn, the message of a failing memory backend.
Texts == {"plan"}
TURN_ERROR == "Failed to execute agent turn"
MEMORY_ERROR == "memory backend failed"
NO_READY == "No ready tasks but workflow not complete"

\* Agent.memory_enabled
memory_enabled == [a \in AgentIds |-> a = "a1"]

\* The key f"task_{task.task_id}_result"
TaskKeys == <<"task_1_result", "task_2_result", "task_3_result",
              "task_4_result", "task_5_result">>
task_result_key(t) == TaskKeys[t]

\* A set that stores nothing.
scratchpad_set_dropped(data, key, value) == data

\* Scratchpad.set on the data of the store
scratchpad_set(data, key, value) == (key :> value) @@ data

\* Agent.role
role == [a \in AgentIds |-> IF a = "a1" THEN "planner" ELSE "researcher"]

\* A success entry that carries the role of the agent of the first task.
success_result_first_role(t, output, tagent) ==
    [task_id |-> t, success |-> TRUE, output |-> output, error |-> "",
     agent_id |-> tagent[t], agent_role |-> role[tagent[1]]]

\* TaskResult(...).to_dict() of a successful and of a failed execution
success_result(t, output, tagent) ==
    [task_id |-> t, success |-> TRUE, output |-> output, error |-> "",
     agent_id |-> tagent[t], agent_role |-> role[tagent[t]]]
failure_result(t, msg, tagent) ==
    [task_id |-> t, success |-> FALSE, output |-> "", error |-> msg,
     agent_id |-> tagent[t], agent_role |-> role[tagent[t]]]

\* WorkflowEngine._generate_final_output: one numbered heading per entry.
generate_final_output(out) ==
    [i \in 1..Len(out) |->
        IF out[i].success
        THEN [heading |-> i, failed |-> FALSE, text |-> out[i].output]
        ELSE [heading |-> i, failed |-> TRUE, text |-> out[i].error]]

\* The CrewOutput with "success = self.crew.has_failed_tasks()" (the "not"
\* dropped).
make_crew_output_not_dropped(tsks, st, out, done, proc) ==
    [tasks_output |-> out,
     final_output |-> generate_final_output(out),
     success |-> has_failed_tasks(tsks, st),
     metadata |-> [process |-> proc, total_tasks |-> Len(tsks),
                   completed_tasks |-> done]]

\* The CrewOutput built at the end of _execute_sequential.
make_crew_output(tsks, st, out, done, proc) ==
    [tasks_output |-> out,
     final_output |-> generate_final_output(out),
     success |-> ~has_failed_tasks(tsks, st),
     metadata |-> [process |-> proc, total_tasks |-> Len(tsks),
                   completed_tasks |-> done]]

\* An execute that runs the loop for the sequential process only.
ExecuteSequentialOnly ==
    /\ pc = "constructed"
    /\ \/ /\ scratchpad' = IF memory THEN inputs @@ scratchpad ELSE scratchpad
          /\ process = SEQUENTIAL
          /\ tasks_output' = <<>>
          /\ completed_tasks' = 0
          /\ pc' = "loop"
          /\ UNCHANGED raised
       \/ /\ process # SEQUENTIAL
          /\ raised' = "Unknown process type"
          /\ pc' = "raised"
          /\ UNCHANGED <<scratchpad, tasks_output, completed_tasks>>
       \/ /\ memory /\ memory_backend /\ DOMAIN inputs # {}
          /\ raised' = MEMORY_ERROR
          /\ pc' = "raised"
          /\ UNCHANGED <<scratchpad, tasks_output, completed_tasks>>
    /\ UNCHANGED memvars
    /\ UNCHANGED <<agents, tasks, task_agent, dependencies, status, result,
                   error, process, memory, memory_backend, inputs, crew_error,
                   task, crew_output>>

\* WorkflowEngine.execute up to the first iteration of the loop: the inputs go
\* to the scratchpad (a call of an injected backend may raise, and nothing in
\* execute catches it), then every process type runs _execute_sequential.
Execute ==
    /\ pc = "constructed"
    /\ \/ /\ scratchpad' = IF memory THEN inputs @@ scratchpad ELSE scratchpad
          /\ \/ process = SEQUENTIAL
             \/ process = PARALLEL
             \/ process = HIERARCHICAL
          /\ tasks_output' = <<>>
          /\ completed_tasks' = 0
          /\ pc' = "loop"
          /\ UNCHANGED raised
       \/ /\ memory /\ memory_backend /\ DOMAIN inputs # {}
          /\ raised' = MEMORY_ERROR
          /\ pc' = "raised"
          /\ UNCHANGED <<scratchpad, tasks_output, completed_tasks>>
    /\ UNCHANGED memvars
    /\ UNCHANGED <<agents, tasks, task_agent, dependencies, status, result,
                   error, process, memory, memory_backend, inputs, crew_error,
                   task, crew_output>>

\* An iteration that starts the last ready task instead of the first.
StartTaskLast ==
    /\ pc = "loop"
    /\ ~is_complete(tasks, status)
    /\ get_ready_tasks(tasks, dependencies, status) # <<>>
    /\ task' = get_ready_tasks(tasks, dependencies, status)
                   [Len(get_ready_tasks(tasks, dependencies, status))]
    /\ status' = mark_in_progress(task', status)
    /\ pc' = "turn"
    /\ UNCHANGED memvars
    /\ UNCHANGED <<agents, tasks, task_agent, dependencies, result, error,
                   process, memory, memory_backend, inputs, scratchpad,
                   crew_error, tasks_output, completed_tasks, crew_output,
                   raised>>

\* Top of the while loop with a ready task: _execute_task starts on the first
\* ready task and marks it in progress.
StartTask ==
    /\ pc = "loop"
    /\ ~is_complete(tasks, status)
    /\ get_ready_tasks(tasks, dependencies, status) # <<>>
    /\ task' = Head(get_ready_tasks(tasks, dependencies, status))
    /\ status' = mark_in_progress(task', status)
    /\ pc' = "turn"
    /\ UNCHANGED memvars
    /\ UNCHANGED <<agents, tasks, task_agent, dependencies, result, error,
                   process, memory, memory_backend, inputs, scratchpad,
                   crew_error, tasks_output, completed_tasks, crew_output,
                   raised>>

\* A loop that raises whenever no task is ready, failed tasks or not.
RaiseNoReadyDespiteFailure ==
    /\ pc = "loop"
    /\ ~is_complete(tasks, status)
    /\ get_ready_tasks(tasks, dependencies, status) = <<>>
    /\ raised' = NO_READY
    /\ pc' = "raised"
    /\ UNCHANGED memvars
    /\ UNCHANGED <<agents, tasks, task_agent, dependencies, status, result,
                   error, process, memory, memory_backend, inputs, scratchpad,
                   crew_error, task, tasks_output, completed_tasks,
                   crew_output>>

\* Top of the while loop with no ready task, nothing failed: RuntimeError.
RaiseNoReady ==
    /\ pc = "loop"
    /\ ~is_complete(tasks, status)
    /\ get_ready_tasks(tasks, dependencies, status) = <<>>
    /\ ~has_failed_tasks(tasks, status)
    /\ raised' = NO_READY
    /\ pc' = "raised"
    /\ UNCHANGED memvars
    /\ UNCHANGED <<agents, tasks, task_agent, dependencies, status, result,
                   error, process, memory, memory_backend, inputs, scratchpad,
                   crew_error, task, tasks_output, completed_tasks,
                   crew_output>>

\* The loop left as soon as a task has failed, ready tasks or not.
ReturnOnFailure ==
    /\ pc = "loop"
    /\ \/ is_complete(tasks, status)
       \/ has_failed_tasks(tasks, status)
    /\ crew_output' = <<make_crew_output(tasks, status, tasks_output,
                                         completed_tasks, process)>>
    /\ pc' = "returned"
    /\ UNCHANGED memvars
    /\ UNCHANGED <<agents, tasks, task_agent, dependencies, status, result,
                   error, process, memory, memory_backend, inputs, scratchpad,
                   crew_error, task, tasks_output, completed_tasks, raised>>

\* The loop ends (crew complete, or no ready task and a failed one): the
\* CrewOutput is built and returned.
Return ==
    /\ pc = "loop"
    /\ \/ is_complete(tasks, status)
       \/ /\ get_ready_tasks(tasks, dependencies, status) = <<>>
          /\ has_failed_tasks(tasks, status)
    /\ crew_output' = <<make_crew_output(tasks, status, tasks_output,
                                         completed_tasks, process)>>
    /\ pc' = "returned"
    /\ UNCHANGED memvars
    /\ UNCHANGED <<agents, tasks, task_agent, dependencies, status, result,
                   error, process, memory, memory_backend, inputs, scratchpad,
                   crew_error, task, tasks_output, completed_tasks, raised>>

\* The lines "- {key}: {value}" of the "# Shared Memory" section, one per
\* entry of scratchpad.get_all(); no entry, no section.
shared_memory_lines(data) == {<<k, data[k]>> : k \in DOMAIN data}

\* The lines "- {role}: {result}" of "# Previous Results" in Task.get_prompt,
\* one per dependency that has a result.
previous_results(t, deps, res, tagent) ==
    LET with_result == SelectSeq(deps[t], LAMBDA d : res[d] # NoneVal)
    IN  [i \in 1..Len(with_result) |->
            <<role[tagent[with_result[i]]], res[with_result[i]]>>]

\* A prompt that carries the shared memory whatever the agent's setting.
execute_prompt_any_agent(t, deps, res, tagent, mem, data) ==
    [task |-> t,
     previous_results |-> previous_results(t, deps, res, tagent),
     shared_memory |-> IF mem THEN shared_memory_lines(data) ELSE {}]

\* The prompt _execute_task hands to execute_turn: Task.get_prompt() and,
\* with crew memory and an agent with memory_enabled, the shared memory.
execute_prompt(t, deps, res, tagent, mem, data) ==
    [task |-> t,
     previous_results |-> previous_results(t, deps, res, tagent),
     shared_memory |-> IF mem /\ memory_enabled[tagent[t]]
                       THEN shared_memory_lines(data) ELSE {}]

\* WorkflowEngine._checkpoint, called by the loop after each task when
\* checkpointing is enabled: its body is "pass", the file stays as it is.
engine_checkpoint(enabled, file) == file

\* The except branch of _execute_task and the rest of the loop body: the task
\* is marked failed, its TaskResult appended and counted, _checkpoint called.
fail_task(msg) ==
    /\ status' = mark_failed_status(task, status)
    /\ error' = mark_failed_error(task, error, msg)
    /\ tasks_output' = Append(tasks_output, failure_result(task, msg, task_agent))
    /\ completed_tasks' = completed_tasks + 1
    /\ checkpoint' = engine_checkpoint(checkpoint_enabled, checkpoint)
    /\ pc' = "loop"

\* The prompt is built; reading the memory snapshot from an injected backend
\* raises.
SnapshotRaises ==
    /\ pc = "turn"
    /\ memory /\ memory_backend /\ memory_enabled[task_agent[task]]
    /\ fail_task(MEMORY_ERROR)
    /\ UNCHANGED <<loopvars, prompt>>
    /\ UNCHANGED <<agents, tasks, task_agent, dependencies, result, process,
                   memory, memory_backend, inputs, scratchpad, crew_error,
                   task, crew_output, raised>>

\* execute_turn raises.
TurnRaises ==
    /\ pc = "turn"
    /\ fail_task(TURN_ERROR)
    /\ prompt' = <<execute_prompt(task, dependencies, result, task_agent,
                                  memory, scratchpad)>>
    /\ UNCHANGED loopvars
    /\ UNCHANGED <<agents, tasks, task_agent, dependencies, result, process,
                   memory, memory_backend, inputs, scratchpad, crew_error,
                   task, crew_output, raised>>

\* execute_turn returns a text: the task is marked completed; without a
\* scratchpad the TaskResult is returned, appended and counted at once.
TurnReturns ==
    /\ pc = "turn"
    /\ \E output \in Texts :
        /\ status' = mark_completed_status(task, status)
        /\ result' = mark_completed_result(task, result, output)
        /\ IF memory
           THEN /\ pc' = "publish"
                /\ UNCHANGED <<tasks_output, completed_tasks, checkpoint>>
           ELSE /\ tasks_output' =
                       Append(tasks_output, success_result(task, output, task_agent))
                /\ completed_tasks' = completed_tasks + 1
                /\ checkpoint' = engine_checkpoint(checkpoint_enabled, checkpoint)
                /\ pc' = "loop"
    /\ prompt' = <<execute_prompt(task, dependencies, result, task_agent,
                                  memory, scratchpad)>>
    /\ UNCHANGED loopvars
    /\ UNCHANGED <<agents, tasks, task_agent, dependencies, error, process,
                   memory, memory_backend, inputs, scratchpad, crew_error,
                   task, crew_output, raised>>

\* scratchpad.set(f"task_{id}_result", output) returns: the TaskResult is
\* returned, appended and counted.
PublishReturns ==
    /\ pc = "publish"
    /\ scratchpad' = scratchpad_set(scratchpad, task_result_key(task), result[task])
    /\ tasks_output' =
           Append(tasks_output, success_result(task, result[task], task_agent))
    /\ completed_tasks' = completed_tasks + 1
    /\ checkpoint' = engine_checkpoint(checkpoint_enabled, checkpoint)
    /\ pc' = "loop"
    /\ UNCHANGED <<loopvars, prompt>>
    /\ UNCHANGED <<agents, tasks, task_agent, dependencies, status, result,
                   error, process, memory, memory_backend, inputs, crew_error,
                   task, crew_output, raised>>

\* scratchpad.set raises (an injected backend): the call sits inside the try
\* block, after mark_completed, so the except branch marks the task failed.
PublishRaises ==
    /\ pc = "publish"
    /\ memory_backend
    /\ fail_task(MEMORY_ERROR)
    /\ UNCHANGED <<loopvars, prompt>>
    /\ UNCHANGED <<agents, tasks, task_agent, dependencies, result, process,
                   memory, memory_backend, inputs, scratchpad, crew_error,
                   task, crew_output, raised>>

\* ------------------------------------------------------------ engine runs
InputMaps == {<<>>, [k \in {"topic"} |-> "ai"]}

\* Status of the Task objects before the run: the tasks of the crew are
\* fresh; a task that is only a dependency may be in any status.
InitialStatuses(k) ==
    {f \in [TaskIds -> TaskStatus] : \A t \in TaskIds : t <= k => f[t] = PENDING}

\* A crew the constructor accepted, about to be run with any inputs.  Task
\* objects the crew does not reach play no part: they are left fresh and
\* without dependencies.
Init ==
    /\ agents = AgentIds
    /\ tasks \in TaskLists
    /\ task_agent = [t \in TaskIds |-> IF t % 2 = 1 THEN "a1" ELSE "a2"]
    /\ dependencies \in DependencyGraphs
    /\ post_init(agents, tasks, task_agent, dependencies) = NoneVal
    /\ status \in InitialStatuses(Len(tasks))
    /\ \A t \in TaskIds \ Reach(Range(tasks), dependencies) :
           dependencies[t] = <<>> /\ status[t] = PENDING
    /\ result = [t \in TaskIds |-> IF status[t] = COMPLETED THEN "plan" ELSE NoneVal]
    /\ error = [t \in TaskIds |-> IF status[t] = FAILED THEN TURN_ERROR ELSE NoneVal]
    /\ process \in ProcessType
    /\ memory \in BOOLEAN
    /\ memory_backend \in BOOLEAN
    /\ memory_backend => memory
    /\ checkpoint_enabled \in BOOLEAN
    /\ inputs \in InputMaps
    /\ scratchpad = <<>>
    /\ pc = "constructed"
    /\ crew_error = NoneVal
    /\ task = 0
    /\ tasks_output = <<>>
    /\ completed_tasks = 0
    /\ crew_output = <<>>
    /\ raised = NoneVal
    /\ NoStore
    /\ NoPrompt

Next ==
    \/ Execute
    \/ StartTask
    \/ RaiseNoReady
    \/ Return
    \/ SnapshotRaises
    \/ TurnRaises
    \/ TurnReturns
    \/ PublishReturns
    \/ PublishRaises

Spec == Init /\ [][Next]_vars

\* The engine is one thread running one loop, and every call it makes (a
\* turn, a memory operation) returns or raises: a step that can be taken is
\* taken.
SpecFair == Init /\ [][Next]_vars /\ WF_vars(Next)

\* ------------------------------------------------- tasks marked by a caller
\* A constructed crew whose Task objects are marked through their public
\* methods in any order, as the unit tests do.  The tasks form a chain, each
\* depending on the one before it.
ChainDependencies == [t \in TaskIds |-> IF t > 1 THEN <<t - 1>> ELSE <<>>]

InitTask ==
    /\ agents = AgentIds
    /\ tasks \in TaskLists
    /\ task_agent = [t \in TaskIds |-> IF t % 2 = 1 THEN "a1" ELSE "a2"]
    /\ dependencies = ChainDependencies
    /\ post_init(agents, tasks, task_agent, dependencies) = NoneVal
    /\ status = [t \in TaskIds |-> PENDING]
    /\ result = [t \in TaskIds |-> NoneVal]
    /\ error = [t \in TaskIds |-> NoneVal]
    /\ process = SEQUENTIAL
    /\ memory = TRUE
    /\ memory_backend = FALSE
    /\ checkpoint_enabled = FALSE
    /\ inputs = <<>>
    /\ scratchpad = <<>>
    /\ pc = "constructed"
    /\ crew_error = NoneVal
    /\ task = 0
    /\ tasks_output = <<>>
    /\ completed_tasks = 0
    /\ crew_output = <<>>
    /\ raised = NoneVal
    /\ NoStore
    /\ NoPrompt

\* What the mark methods leave alone.
marked_unchanged ==
    /\ UNCHANGED memvars
    /\ UNCHANGED <<agents, tasks, task_agent, dependencies, process, memory,
                   memory_backend, inputs, scratchpad, pc, crew_error,
                   tasks_output, completed_tasks, crew_output, raised>>

MarkInProgress ==
    \E t \in TaskIds :
        /\ task' = t
        /\ status' = mark_in_progress(t, status)
        /\ UNCHANGED <<result, error>>
        /\ marked_unchanged

MarkCompleted ==
    \E t \in TaskIds, output \in Texts :
        /\ task' = t
        /\ status' = mark_completed_status(t, status)
        /\ result' = mark_completed_result(t, result, output)
        /\ UNCHANGED error
        /\ marked_unchanged

MarkFailed ==
    \E t \in TaskIds :
        /\ task' = t
        /\ status' = mark_failed_status(t, status)
        /\ error' = mark_failed_error(t, error, TURN_ERROR)
        /\ UNCHANGED result
        /\ marked_unchanged

MarkSkipped ==
    \E t \in TaskIds :
        /\ task' = t
        /\ status' = mark_skipped(t, status)
        /\ UNCHANGED <<result, error>>
        /\ marked_unchanged

NextTask ==
    \/ MarkInProgress
    \/ MarkCompleted
    \/ MarkFailed
    \/ MarkSkipped

SpecTask == InitTask /\ [][NextTask]_vars

\* ------------------------------------------- memory/scratchpad.py, backends
\* Stored values are integers and lists of integers (what json.dumps and
\* json.loads carry over unchanged); keys are plain names without "=", so a
\* message "MEMORY_SET:{key}={json}" starts with the prefix of its own key
\* only and is kept as the record of its parts.
MaxCalls == 4
MemKeys == {"k", "c"}
IntVal(n) == [kind |-> "int", n |-> n, l |-> <<>>]
ListVal(l) == [kind |-> "list", n |-> 0, l |-> l]
BoolVal(b) == [kind |-> "bool", n |-> IF b THEN 1 ELSE 0, l |-> <<>>]
\* None, the default a caller hands to get, and the TypeError of int + list
NoneRet == [kind |-> "None", n |-> 0, l |-> <<>>]
DefaultVal == [kind |-> "default", n |-> 0, l |-> <<>>]
TypeError == [kind |-> "TypeError", n |-> 0, l |-> <<>>]
SetValues == {IntVal(1), ListVal(<<1>>)}
Amounts == {1, 2}
AppendItems == {1, 2}

\* del mapping[key]
dict_del(d, key) == [x \in DOMAIN d \ {key} |-> d[x]]

\* Scratchpad.get and Scratchpad.delete without a backend
scratchpad_get(d, key, default) == IF key \in DOMAIN d THEN d[key] ELSE default
scratchpad_delete(d, key) ==
    [existed |-> key \in DOMAIN d, data |-> dict_del(d, key)]

\* The system messages the backend posts, and client.post on the
\* conversation: the message is appended unless the call fails.
MemorySet(key, value) == [op |-> "MEMORY_SET", key |-> key, value |-> value]
MemoryDelete(key) == [op |-> "MEMORY_DELETE", key |-> key, value |-> NoneRet]
post(msgs, msg, ok) == IF ok THEN Append(msgs, msg) ELSE msgs

\* The loop of get over reversed(messages), from position i down: the
\* position of the most recent MEMORY_SET of the key, 0 if there is none.
RECURSIVE most_recent_set(_, _, _)
most_recent_set(msgs, key, i) ==
    IF i = 0 THEN 0
    ELSE IF msgs[i].op = "MEMORY_SET" /\ msgs[i].key = key THEN i
    ELSE most_recent_set(msgs, key, i - 1)

\* LlamaStackMemoryBackend.set
backend_set(c, msgs, key, value, ok) ==
    [cache |-> (key :> value) @@ c,
     messages |-> post(msgs, MemorySet(key, value), ok)]

\* A get that asks the remote before the cache.
backend_get_remote_first(c, msgs, key, default, ok) ==
    LET i == IF ok THEN most_recent_set(msgs, key, Len(msgs)) ELSE 0
    IN  IF i # 0
        THEN [value |-> msgs[i].value, cache |-> (key :> msgs[i].value) @@ c,
              queried |-> TRUE]
        ELSE IF key \in DOMAIN c
        THEN [value |-> c[key], cache |-> c, queried |-> TRUE]
        ELSE [value |-> default, cache |-> c, queried |-> TRUE]

\* A get that returns what the remote holds without caching it.
backend_get_uncached(c, msgs, key, default, ok) ==
    IF key \in DOMAIN c THEN [value |-> c[key], cache |-> c, queried |-> FALSE]
    ELSE LET i == IF ok THEN most_recent_set(msgs, key, Len(msgs)) ELSE 0
         IN  IF i # 0
             THEN [value |-> msgs[i].value, cache |-> c, queried |-> TRUE]
             ELSE [value |-> default, cache |-> c, queried |-> TRUE]

\* LlamaStackMemoryBackend.get: the cache first, then the conversation (ok:
\* the remote call answered), then the default.  queried: client.get was
\* called.
backend_get(c, msgs, key, default, ok) ==
    IF key \in DOMAIN c THEN [value |-> c[key], cache |-> c, queried |-> FALSE]
    ELSE LET i == IF ok THEN most_recent_set(msgs, key, Len(msgs)) ELSE 0
         IN  IF i # 0
             THEN [value |-> msgs[i].value,
                   cache |-> (key :> msgs[i].value) @@ c, queried |-> TRUE]
             ELSE [value |-> default, cache |-> c, queried |-> TRUE]

\* A delete that reports the key but keeps it in the cache.
backend_delete_kept(c, msgs, key, ok) ==
    [existed |-> key \in DOMAIN c,
     cache |-> c,
     messages |-> post(msgs, MemoryDelete(key), ok)]

\* LlamaStackMemoryBackend.delete
backend_delete(c, msgs, key, ok) ==
    [existed |-> key \in DOMAIN c,
     cache |-> dict_del(c, key),
     messages |-> post(msgs, MemoryDelete(key), ok)]

\* LlamaStackMemoryBackend.increment: get, add, set (ok1, ok2: the remote
\* call of the get and of the set answered).  Adding to a list raises.
increment(c, msgs, key, amount, ok1, ok2) ==
    LET g == backend_get(c, msgs, key, IntVal(0), ok1)
    IN  IF g.value.kind # "int"
        THEN [ret |-> TypeError, cache |-> g.cache, messages |-> msgs,
              queried |-> g.queried]
        ELSE LET new_value == IntVal(g.value.n + amount)
                 st == backend_set(g.cache, msgs, key, new_value, ok2)
             IN  [ret |-> new_value, cache |-> st.cache,
                  messages |-> st.messages, queried |-> g.queried]

\* LlamaStackMemoryBackend.append_to_list
append_to_list(c, msgs, key, value, ok1, ok2) ==
    LET g == backend_get(c, msgs, key, ListVal(<<>>), ok1)
        current_list == IF g.value.kind = "list" THEN g.value.l ELSE <<>>
        st == backend_set(g.cache, msgs, key,
                          ListVal(Append(current_list, value)), ok2)
    IN  [ret |-> NoneRet, cache |-> st.cache, messages |-> st.messages,
         queried |-> g.queried]

\* LlamaStackMemoryBackend.get_list
get_list(c, msgs, key, ok) ==
    LET g == backend_get(c, msgs, key, ListVal(<<>>), ok)
    IN  [value |-> IF g.value.kind = "list" THEN g.value ELSE ListVal(<<>>),
         cache |-> g.cache, queried |-> g.queried]

\* ------------------------------------------------- a memory store in use
\* The two stores: a Scratchpad without a backend, and a
\* LlamaStackMemoryBackend (alone or behind a Scratchpad, which hands set,
\* get and delete on to it) on a conversation of its own.
SCRATCHPAD == "Scratchpad"
LLAMA_STACK == "LlamaStackMemoryBackend"

\* What the calls made so far say about a key: never written, deleted last,
\* or the value written last.
Unset == [kind |-> "unset", n |-> 0, l |-> <<>>]
Deleted == [kind |-> "deleted", n |-> 0, l |-> <<>>]

InitMemory ==
    /\ agents = AgentIds
    /\ tasks = <<>>
    /\ task_agent = [t \in TaskIds |-> "a1"]
    /\ dependencies = [t \in TaskIds |-> <<>>]
    /\ status = [t \in TaskIds |-> PENDING]
    /\ result = [t \in TaskIds |-> NoneVal]
    /\ error = [t \in TaskIds |-> NoneVal]
    /\ process = SEQUENTIAL
    /\ memory = TRUE
    /\ memory_backend = FALSE
    /\ checkpoint_enabled = FALSE
    /\ inputs = <<>>
    /\ scratchpad = <<>>
    /\ pc = "store"
    /\ crew_error = NoneVal
    /\ task = 0
    /\ tasks_output = <<>>
    /\ completed_tasks = 0
    /\ crew_output = <<>>
    /\ raised = NoneVal
    /\ store \in {SCRATCHPAD, LLAMA_STACK}
    /\ scratch_data = <<>>
    /\ cache = <<>>
    /\ messages = <<>>
    /\ call = [op |-> "init", key |-> "", arg |-> NoneRet]
    /\ ret = NoneRet
    /\ written = [k \in MemKeys |-> Unset]
    /\ calls = 0
    /\ queried = FALSE
    /\ NoAux
    /\ NoCheckpoint
    /\ NoPrompt

\* One more call on the store; nothing of a crew is touched.
called(op, key, arg) ==
    /\ calls < MaxCalls
    /\ calls' = calls + 1
    /\ call' = [op |-> op, key |-> key, arg |-> arg]
    /\ UNCHANGED <<ckptvars, prompt, auxvars, checkpoint_enabled>>
    /\ UNCHANGED <<store, agents, tasks, task_agent, dependencies, status,
                   result, error, process, memory, memory_backend, inputs,
                   scratchpad, pc, crew_error, task, tasks_output,
                   completed_tasks, crew_output, raised>>

\* set(key, value)
Set ==
    \E key \in MemKeys, value \in SetValues, ok \in BOOLEAN :
        /\ called("set", key, value)
        /\ IF store = SCRATCHPAD
           THEN /\ ok
                /\ scratch_data' = scratchpad_set(scratch_data, key, value)
                /\ UNCHANGED <<cache, messages>>
           ELSE LET st == backend_set(cache, messages, key, value, ok)
                IN  /\ cache' = st.cache
                    /\ messages' = st.messages
                    /\ UNCHANGED scratch_data
        /\ ret' = NoneRet
        /\ queried' = FALSE
        /\ written' = [written EXCEPT ![key] = value]

\* get(key, default)
Get ==
    \E key \in MemKeys, ok \in BOOLEAN :
        /\ called("get", key, DefaultVal)
        /\ IF store = SCRATCHPAD
           THEN /\ ok
                /\ ret' = scratchpad_get(scratch_data, key, DefaultVal)
                /\ queried' = FALSE
                /\ UNCHANGED <<scratch_data, cache, messages>>
           ELSE LET g == backend_get(cache, messages, key, DefaultVal, ok)
                IN  /\ ret' = g.value
                    /\ cache' = g.cache
                    /\ queried' = g.queried
                    /\ UNCHANGED <<scratch_data, messages>>
        /\ UNCHANGED written

\* delete(key)
Delete ==
    \E key \in MemKeys, ok \in BOOLEAN :
        /\ called("delete", key, NoneRet)
        /\ IF store = SCRATCHPAD
           THEN LET d == scratchpad_delete(scratch_data, key)
                IN  /\ ok
                    /\ ret' = BoolVal(d.existed)
                    /\ scratch_data' = d.data
                    /\ UNCHANGED <<cache, messages>>
           ELSE LET d == backend_delete(cache, messages, key, ok)
                IN  /\ ret' = BoolVal(d.existed)
                    /\ cache' = d.cache
                    /\ messages' = d.messages
                    /\ UNCHANGED scratch_data
        /\ queried' = FALSE
        /\ written' = [written EXCEPT ![key] = Deleted]

\* increment(key, amount), of the backend
Increment ==
    \E key \in MemKeys, amount \in Amounts, ok1 \in BOOLEAN, ok2 \in BOOLEAN :
        /\ store = LLAMA_STACK
        /\ called("increment", key, IntVal(amount))
        /\ LET r == increment(cache, messages, key, amount, ok1, ok2)
           IN  /\ ret' = r.ret
               /\ cache' = r.cache
               /\ messages' = r.messages
               /\ queried' = r.queried
               /\ written' = IF r.ret = TypeError THEN written
                              ELSE [written EXCEPT ![key] = r.ret]
        /\ UNCHANGED scratch_data

\* append_to_list(key, value), of the backend
AppendToList ==
    \E key \in MemKeys, value \in AppendItems, ok1 \in BOOLEAN, ok2 \in BOOLEAN :
        /\ store = LLAMA_STACK
        /\ called("append_to_list", key, IntVal(value))
        /\ LET r == append_to_list(cache, messages, key, value, ok1, ok2)
           IN  /\ ret' = r.ret
               /\ cache' = r.cache
               /\ messages' = r.messages
               /\ queried' = r.queried
               /\ written' = [written EXCEPT ![key] = r.cache[key]]
        /\ UNCHANGED scratch_data

NextMemory ==
    \/ Set
    \/ Get
    \/ Delete
    \/ Increment
    \/ AppendToList

SpecMemory == InitMemory /\ [][NextMemory]_vars

\* ----------------------------------------------------- memory/checkpoint.py
\* Task.to_dict, and the checkpoint_data CheckpointManager.save writes: the
\* agents by id, the task records in list order, the crew's own fields.
task_to_dict(t, tagent, deps, st, res, err) ==
    [task_id |-> t, agent_id |-> tagent[t], dependencies |-> deps[t],
     status |-> st[t], result |-> res[t], error |-> err[t]]
checkpoint_data(ags, tsks, tagent, deps, st, res, err, proc, mem) ==
    [agents |-> ags,
     tasks |-> [i \in 1..Len(tsks) |->
                  task_to_dict(tsks[i], tagent, deps, st, res, err)],
     crew |-> [process |-> proc, memory |-> mem]]

\* The exceptions of load
FILE_NOT_FOUND == "FileNotFoundError"
KEY_ERROR == "KeyError"

\* task_map of load: the record of the task with this id.
task_map(rec, t) ==
    rec.tasks[CHOOSE i \in 1..Len(rec.tasks) : rec.tasks[i].task_id = t]
record_ids(rec) == {rec.tasks[i].task_id : i \in 1..Len(rec.tasks)}

\* The crew load builds from a record whose references resolve.
\* TaskStatus(data["status"]) looks the recorded string up among the values.
loaded_crew(rec) ==
    [agents |-> rec.agents,
     tasks |-> [i \in 1..Len(rec.tasks) |-> rec.tasks[i].task_id],
     task_agent |-> [t \in record_ids(rec) |-> task_map(rec, t).agent_id],
     dependencies |->
        [t \in record_ids(rec) |-> task_map(rec, t).dependencies],
     status |-> [t \in record_ids(rec) |->
                   CHOOSE v \in TaskStatus : v = task_map(rec, t).status],
     result |-> [t \in record_ids(rec) |-> task_map(rec, t).result],
     error |-> [t \in record_ids(rec) |-> task_map(rec, t).error],
     process |-> rec.crew.process,
     memory |-> rec.crew.memory]

\* A load that hands back what it rebuilt without constructing a Crew.
load_unvalidated(file) ==
    IF file = <<>> THEN [error |-> FILE_NOT_FOUND, crew |-> <<>>]
    ELSE LET rec == file[1] IN
         IF \E i \in 1..Len(rec.tasks) : rec.tasks[i].agent_id \notin rec.agents
         THEN [error |-> KEY_ERROR, crew |-> <<>>]
         ELSE IF \E i \in 1..Len(rec.tasks) :
                    \E j \in 1..Len(rec.tasks[i].dependencies) :
                        rec.tasks[i].dependencies[j] \notin record_ids(rec)
         THEN [error |-> KEY_ERROR, crew |-> <<>>]
         ELSE [error |-> NoneVal, crew |-> <<loaded_crew(rec)>>]

\* A load that resolves dependencies while it builds each task: only tasks
\* recorded earlier are known.
load_one_pass(file) ==
    IF file = <<>> THEN [error |-> FILE_NOT_FOUND, crew |-> <<>>]
    ELSE LET rec == file[1] IN
         IF \E i \in 1..Len(rec.tasks) : rec.tasks[i].agent_id \notin rec.agents
         THEN [error |-> KEY_ERROR, crew |-> <<>>]
         ELSE IF \E i \in 1..Len(rec.tasks) :
                    \E j \in 1..Len(rec.tasks[i].dependencies) :
                        rec.tasks[i].dependencies[j]
                          \notin {rec.tasks[h].task_id : h \in 1..(i - 1)}
         THEN [error |-> KEY_ERROR, crew |-> <<>>]
         ELSE LET c == loaded_crew(rec)
                  e == post_init(c.agents, c.tasks, c.task_agent, c.dependencies)
              IN  IF e # NoneVal THEN [error |-> e, crew |-> <<>>]
                  ELSE [error |-> NoneVal, crew |-> <<c>>]

\* CheckpointManager.load: the exception it raises (None if it returns) and
\* the crew it returns.  agent_map[...] and task_map[...] raise KeyError on
\* an id the record does not hold; Crew(...) validates what was rebuilt.
load(file) ==
    IF file = <<>> THEN [error |-> FILE_NOT_FOUND, crew |-> <<>>]
    ELSE LET rec == file[1] IN
         IF \E i \in 1..Len(rec.tasks) : rec.tasks[i].agent_id \notin rec.agents
         THEN [error |-> KEY_ERROR, crew |-> <<>>]
         ELSE IF \E i \in 1..Len(rec.tasks) :
                    \E j \in 1..Len(rec.tasks[i].dependencies) :
                        rec.tasks[i].dependencies[j] \notin record_ids(rec)
         THEN [error |-> KEY_ERROR, crew |-> <<>>]
         ELSE LET c == loaded_crew(rec)
                  e == post_init(c.agents, c.tasks, c.task_agent, c.dependencies)
              IN  IF e # NoneVal THEN [error |-> e, crew |-> <<>>]
                  ELSE [error |-> NoneVal, crew |-> <<c>>]

\* ------------------------------------------- a crew saved and loaded again
\* Crews the constructor accepted, over NumSaved Task objects, in every
\* combination of statuses: without dependencies, a chain, a chain in which
\* each task depends on the task listed after it, a diamond (4 on 2 and 3,
\* both on 1) and the diamond listed backwards.  A crew whose list stops
\* short of a dependency has it outside the list.
NumSaved == 4
SavedIds == 1..NumSaved
SavedGraphs ==
    {[t \in SavedIds |-> <<>>],
     [t \in SavedIds |-> IF t > 1 THEN <<t - 1>> ELSE <<>>],
     [t \in SavedIds |-> IF t < NumSaved THEN <<t + 1>> ELSE <<>>],
     [t \in SavedIds |-> IF t = 4 THEN <<2, 3>>
                         ELSE IF t \in {2, 3} THEN <<1>> ELSE <<>>],
     [t \in SavedIds |-> IF t = 1 THEN <<3, 2>>
                         ELSE IF t \in {2, 3} THEN <<4>> ELSE <<>>]}

InitCheckpoint ==
    /\ agents = AgentIds
    /\ tasks \in {[i \in 1..k |-> i] : k \in 1..NumSaved}
    /\ task_agent = [t \in SavedIds |-> IF t % 2 = 1 THEN "a1" ELSE "a2"]
    /\ dependencies \in SavedGraphs
    /\ post_init(agents, tasks, task_agent, dependencies) = NoneVal
    /\ status \in [SavedIds -> TaskStatus]
    /\ result = [t \in SavedIds |-> IF status[t] = COMPLETED THEN "plan" ELSE NoneVal]
    /\ error = [t \in SavedIds |-> IF status[t] = FAILED THEN TURN_ERROR ELSE NoneVal]
    /\ process \in ProcessType
    /\ memory = TRUE
    /\ memory_backend = FALSE
    /\ checkpoint_enabled = FALSE
    /\ inputs = <<>>
    /\ scratchpad = <<>>
    /\ pc = "constructed"
    /\ crew_error = NoneVal
    /\ task = 0
    /\ tasks_output = <<>>
    /\ completed_tasks = 0
    /\ crew_output = <<>>
    /\ raised = NoneVal
    /\ store = "none"
    /\ scratch_data = <<>>
    /\ cache = <<>>
    /\ messages = <<>>
    /\ call = <<>>
    /\ ret = <<>>
    /\ written = <<>>
    /\ calls = 0
    /\ queried = FALSE
    /\ NoAux
    /\ NoCheckpoint
    /\ NoPrompt

\* What save, load and delete of the checkpoint leave alone.
checkpoint_unchanged ==
    UNCHANGED <<agents, tasks, task_agent, dependencies, status, result, error,
                process, memory, memory_backend, inputs, scratchpad, pc,
                crew_error, task, tasks_output, completed_tasks, crew_output,
                raised, store, scratch_data, cache, messages, call, ret,
                written, calls, queried, prompt, auxvars,
                checkpoint_enabled>>

\* CheckpointManager.save(crew)
Save ==
    /\ pc = "constructed"
    /\ checkpoint' = <<checkpoint_data(agents, tasks, task_agent, dependencies,
                                       status, result, error, process, memory)>>
    /\ UNCHANGED <<loaded, load_error>>
    /\ checkpoint_unchanged

\* CheckpointManager.load()
Load ==
    /\ loaded' = load(checkpoint).crew
    /\ load_error' = load(checkpoint).error
    /\ UNCHANGED checkpoint
    /\ checkpoint_unchanged

\* CheckpointManager.delete()
DeleteCheckpoint ==
    /\ checkpoint' = <<>>
    /\ UNCHANGED <<loaded, load_error>>
    /\ checkpoint_unchanged

NextCheckpoint ==
    \/ Save
    \/ Load
    \/ DeleteCheckpoint

SpecCheckpoint == InitCheckpoint /\ [][NextCheckpoint]_vars

\* ------------------------------------------------ any record on the disk
\* The checkpoint file as load may find it: missing, or holding the record
\* of any agents, any task list, any binding of tasks to agents and any
\* dependency lists (agents left out, dependencies on tasks that are not
\* recorded, cycles), written by whoever wrote the file.
Records(ags, tsks, tagent, deps) ==
    checkpoint_data(ags, tsks, tagent, deps,
                    [t \in TaskIds |-> PENDING], [t \in TaskIds |-> NoneVal],
                    [t \in TaskIds |-> NoneVal], SEQUENTIAL, TRUE)

InitRecord ==
    /\ agents = {}
    /\ tasks = <<>>
    /\ task_agent = <<>>
    /\ dependencies = <<>>
    /\ status = <<>>
    /\ result = <<>>
    /\ error = <<>>
    /\ process = SEQUENTIAL
    /\ memory = TRUE
    /\ memory_backend = FALSE
    /\ checkpoint_enabled = FALSE
    /\ inputs = <<>>
    /\ scratchpad = <<>>
    /\ pc = "no crew"
    /\ crew_error = NoneVal
    /\ task = 0
    /\ tasks_output = <<>>
    /\ completed_tasks = 0
    /\ crew_output = <<>>
    /\ raised = NoneVal
    /\ store = "none"
    /\ scratch_data = <<>>
    /\ cache = <<>>
    /\ messages = <<>>
    /\ call = <<>>
    /\ ret = <<>>
    /\ written = <<>>
    /\ calls = 0
    /\ queried = FALSE
    /\ NoAux
    /\ \/ checkpoint = <<>>
       \/ \E ags \in SUBSET AgentIds, tsks \in TaskLists,
             tagent \in [TaskIds -> AgentIds], deps \in DependencyGraphs :
             checkpoint = <<Records(ags, tsks, tagent, deps)>>
    /\ loaded = <<>>
    /\ load_error = NoneVal
    /\ NoPrompt

NextRecord ==
    \/ Load
    \/ DeleteCheckpoint

SpecRecord == InitRecord /\ [][NextRecord]_vars


\* ------------------------------------------ concurrent callers of increment
\* Threads (two, or any number up to NumCallers) that each call
\* increment(CounterKey, 1) on one backend object whose key is unset.
\* increment is get, add, set with no lock; a thread may be preempted between
\* any two of the steps below (the membership test of get, the read of the
\* cache, the request to the remote, the caching of what it answered, the
\* assignment to the cache in set, the post of set).
NumCallers == 3
Callers == DOMAIN callers
CounterKey == "c"

\* The state of the crew, which the components exercised on their own leave
\* alone.
crewvars == <<agents, tasks, task_agent, dependencies, status, result, error,
              process, memory, memory_backend, inputs, scratchpad, pc,
              crew_error, task, tasks_output, completed_tasks, crew_output,
              raised>>

InitConcurrent ==
    /\ agents = AgentIds
    /\ tasks = <<>>
    /\ task_agent = [t \in TaskIds |-> "a1"]
    /\ dependencies = [t \in TaskIds |-> <<>>]
    /\ status = [t \in TaskIds |-> PENDING]
    /\ result = [t \in TaskIds |-> NoneVal]
    /\ error = [t \in TaskIds |-> NoneVal]
    /\ process = SEQUENTIAL
    /\ memory = TRUE
    /\ memory_backend = FALSE
    /\ checkpoint_enabled = FALSE
    /\ inputs = <<>>
    /\ scratchpad = <<>>
    /\ pc = "store"
    /\ crew_error = NoneVal
    /\ task = 0
    /\ tasks_output = <<>>
    /\ completed_tasks = 0
    /\ crew_output = <<>>
    /\ raised = NoneVal
    /\ store = LLAMA_STACK
    /\ scratch_data = <<>>
    /\ cache = <<>>
    /\ messages = <<>>
    /\ call = <<>>
    /\ ret = <<>>
    /\ written = <<>>
    /\ calls = 0
    /\ queried = FALSE
    /\ NoCheckpoint
    /\ NoPrompt
    /\ NoRetry
    /\ NoBreaker /\ NoClock /\ NoBreakerCall
    /\ \E n \in 1..NumCallers :
          callers = [c \in 1..n |-> [pc |-> "idle", current |-> 0]]

\* What a step of a caller leaves alone besides the cache and the messages.
caller_unchanged ==
    UNCHANGED <<crewvars, store, scratch_data, call, ret, written, calls,
                queried, ckptvars, prompt, checkpoint_enabled, retry,
                breaker, now, breaker_call>>

\* The caller moves on to position p holding the value v.
goes(c, p, v) == callers' = [callers EXCEPT ![c] = [pc |-> p, current |-> v]]

\* get: "if key in self._cache"
IncCheck(c) ==
    /\ callers[c].pc = "idle"
    /\ goes(c, IF CounterKey \in DOMAIN cache THEN "hit" ELSE "miss", 0)
    /\ UNCHANGED <<cache, messages>>
    /\ caller_unchanged

\* get: "return self._cache[key]"
IncRead(c) ==
    /\ callers[c].pc = "hit"
    /\ goes(c, "have", cache[CounterKey].n)
    /\ UNCHANGED <<cache, messages>>
    /\ caller_unchanged

\* get: the request to the remote and the search of its answer; nothing
\* found, or the request failed: the default 0.
IncQuery(c) ==
    /\ callers[c].pc = "miss"
    /\ \E ok \in BOOLEAN :
        LET i == IF ok THEN most_recent_set(messages, CounterKey, Len(messages))
                 ELSE 0
        IN  IF i # 0 THEN goes(c, "found", messages[i].value.n)
            ELSE goes(c, "have", 0)
    /\ UNCHANGED <<cache, messages>>
    /\ caller_unchanged

\* get: "self._cache[key] = value; return value"
IncCache(c) ==
    /\ callers[c].pc = "found"
    /\ cache' = (CounterKey :> IntVal(callers[c].current)) @@ cache
    /\ goes(c, "have", callers[c].current)
    /\ UNCHANGED messages
    /\ caller_unchanged

\* An increment that adds the amount twice.
IncStoreTwice(c) ==
    /\ callers[c].pc = "have"
    /\ cache' = (CounterKey :> IntVal(callers[c].current + 2)) @@ cache
    /\ goes(c, "post", callers[c].current + 2)
    /\ UNCHANGED messages
    /\ caller_unchanged

\* "new_value = current + amount", and set: "self._cache[key] = value"
IncStore(c) ==
    /\ callers[c].pc = "have"
    /\ cache' = (CounterKey :> IntVal(callers[c].current + 1)) @@ cache
    /\ goes(c, "post", callers[c].current + 1)
    /\ UNCHANGED messages
    /\ caller_unchanged

\* set: the post of the MEMORY_SET message; increment returns new_value.
IncPost(c) ==
    /\ callers[c].pc = "post"
    /\ \E ok \in BOOLEAN :
        messages' = post(messages,
                         MemorySet(CounterKey, IntVal(callers[c].current)), ok)
    /\ goes(c, "done", callers[c].current)
    /\ UNCHANGED cache
    /\ caller_unchanged

NextConcurrent ==
    \E c \in Callers :
        \/ IncCheck(c)
        \/ IncRead(c)
        \/ IncQuery(c)
        \/ IncCache(c)
        \/ IncStore(c)
        \/ IncPost(c)

SpecConcurrent == InitConcurrent /\ [][NextConcurrent]_vars


\* ------------------------------------------------------ utils/retry.py: retry
\* No crew is run and no store or checkpoint is in use: the utilities of
\* utils/retry.py are exercised on their own.
NoCrewRun ==
    /\ agents = AgentIds
    /\ tasks = <<>>
    /\ task_agent = [t \in TaskIds |-> "a1"]
    /\ dependencies = [t \in TaskIds |-> <<>>]
    /\ status = [t \in TaskIds |-> PENDING]
    /\ result = [t \in TaskIds |-> NoneVal]
    /\ error = [t \in TaskIds |-> NoneVal]
    /\ process = SEQUENTIAL
    /\ memory = TRUE
    /\ memory_backend = FALSE
    /\ checkpoint_enabled = FALSE
    /\ inputs = <<>>
    /\ scratchpad = <<>>
    /\ pc = "utility"
    /\ crew_error = NoneVal
    /\ task = 0
    /\ tasks_output = <<>>
    /\ completed_tasks = 0
    /\ crew_output = <<>>
    /\ raised = NoneVal
    /\ store = "none"
    /\ scratch_data = <<>>
    /\ cache = <<>>
    /\ messages = <<>>
    /\ call = <<>>
    /\ ret = <<>>
    /\ written = <<>>
    /\ calls = 0
    /\ queried = FALSE
    /\ NoCheckpoint
    /\ NoPrompt

\* The arguments of retry(): max_attempts from 0 up, delay, backoff, with or
\* without an on_retry callback.
MaxAttempts == 3
Delays == {0, 1}
Backoffs == {1, 2}

\* What the wrapper did in the end
RUNNING == "running"
RETURNED == "returned the result"
FELL_THROUGH == "returned None"
RETRY_ERROR == "RetryError"
PROPAGATED == "propagated"

\* The wrapper is entered: attempt = 1, current_delay = delay.  func_calls,
\* failed and on_retry_calls count the calls of func, those that raised a
\* listed exception and the calls of on_retry; slept is the time slept.
InitRetry ==
    /\ NoCrewRun
    /\ NoCallers
    /\ NoBreaker /\ NoClock /\ NoBreakerCall
    /\ \E m \in 0..MaxAttempts, d \in Delays, b \in Backoffs, cb \in BOOLEAN :
          retry = [max_attempts |-> m, backoff |-> b, on_retry |-> cb,
                   attempt |-> 1, current_delay |-> d,
                   func_calls |-> 0, failed |-> 0, on_retry_calls |-> 0,
                   slept |-> 0, outcome |-> RUNNING]

retry_unchanged ==
    UNCHANGED <<crewvars, store, scratch_data, cache, messages, call, ret,
                written, calls, queried, ckptvars, prompt,
                checkpoint_enabled, callers, breaker, now, breaker_call>>

\* "while attempt <= max_attempts" is false: the wrapper ends without a
\* return statement.
RetryFallsThrough ==
    /\ retry.outcome = RUNNING
    /\ retry.attempt > retry.max_attempts
    /\ retry' = [retry EXCEPT !.outcome = FELL_THROUGH]
    /\ retry_unchanged

\* func is called and returns.
RetryCallReturns ==
    /\ retry.outcome = RUNNING
    /\ retry.attempt <= retry.max_attempts
    /\ retry' = [retry EXCEPT !.func_calls = @ + 1, !.outcome = RETURNED]
    /\ retry_unchanged

\* func is called and raises one of the listed exceptions: RetryError on the
\* last attempt, otherwise on_retry, sleep, backoff and the next attempt.
RetryCallRaisesListed ==
    /\ retry.outcome = RUNNING
    /\ retry.attempt <= retry.max_attempts
    /\ IF retry.attempt >= retry.max_attempts
       THEN retry' = [retry EXCEPT !.func_calls = @ + 1, !.failed = @ + 1,
                                   !.outcome = RETRY_ERROR]
       ELSE retry' = [retry EXCEPT
                        !.func_calls = @ + 1, !.failed = @ + 1,
                        !.on_retry_calls = IF retry.on_retry THEN @ + 1 ELSE @,
                        !.slept = @ + retry.current_delay,
                        !.current_delay = @ * retry.backoff,
                        !.attempt = @ + 1]
    /\ retry_unchanged

\* func is called and raises an exception that is not listed: no handler.
RetryCallRaisesOther ==
    /\ retry.outcome = RUNNING
    /\ retry.attempt <= retry.max_attempts
    /\ retry' = [retry EXCEPT !.func_calls = @ + 1, !.outcome = PROPAGATED]
    /\ retry_unchanged

NextRetry ==
    \/ RetryFallsThrough
    \/ RetryCallReturns
    \/ RetryCallRaisesListed
    \/ RetryCallRaisesOther

SpecRetry == InitRetry /\ [][NextRetry]_vars


\* ------------------------------------------- utils/retry.py: CircuitBreaker
CLOSED == "CLOSED"
OPEN == "OPEN"
HALF_OPEN == "HALF_OPEN"

\* The arguments of the constructor, the reach of the clock and the number
\* of uses of the breaker.
MaxThreshold == 2
MaxTimeout == 2
MaxTime == 3
MaxBreakerCalls == 4

\* How a use of the breaker ended
BREAKER_OPEN == "CircuitBreakerOpen"
FUNC_RETURNED == "func returned"
FUNC_RAISED == "func raised expected_exception"
FUNC_RAISED_OTHER == "func raised another exception"
EXIT == "__exit__"

\* CircuitBreaker.__init__; last_failure_time is <<>> for None, else <<t>>.
InitBreaker ==
    /\ NoCrewRun
    /\ NoCallers
    /\ NoRetry
    /\ \E th \in 0..MaxThreshold, to \in 0..MaxTimeout :
          breaker = [failure_threshold |-> th, recovery_timeout |-> to,
                     failure_count |-> 0, last_failure_time |-> <<>>,
                     state |-> CLOSED]
    /\ now = 0
    /\ breaker_call = [n |-> 0, invoked |-> FALSE, outcome |-> "none"]

breaker_unchanged ==
    UNCHANGED <<crewvars, store, scratch_data, cache, messages, call, ret,
                written, calls, queried, ckptvars, prompt,
                checkpoint_enabled, callers, retry>>

\* CircuitBreaker._should_attempt_reset
should_attempt_reset(b, t) ==
    IF b.last_failure_time = <<>> THEN TRUE
    ELSE (t - b.last_failure_time[1]) >= b.recovery_timeout

\* A _record_failure that counts the failure but never opens the circuit.
record_failure_never_opens(b, t) ==
    [b EXCEPT !.failure_count = @ + 1, !.last_failure_time = <<t>>]

\* CircuitBreaker._record_failure
record_failure(b, t) ==
    [b EXCEPT !.failure_count = @ + 1,
              !.last_failure_time = <<t>>,
              !.state = IF b.failure_count + 1 >= b.failure_threshold
                        THEN OPEN ELSE @]

\* CircuitBreaker._reset
reset(b) ==
    [b EXCEPT !.failure_count = 0, !.last_failure_time = <<>>,
              !.state = CLOSED]

\* The breaker as call finds it once past the test of OPEN.
entered(b) == IF b.state = OPEN THEN [b EXCEPT !.state = HALF_OPEN] ELSE b

\* One more use of the breaker.
used(invoked, outcome) ==
    /\ breaker_call.n < MaxBreakerCalls
    /\ breaker_call' = [n |-> breaker_call.n + 1, invoked |-> invoked,
                        outcome |-> outcome]
    /\ UNCHANGED now
    /\ breaker_unchanged

\* Time passes between two uses of the breaker.
Tick ==
    /\ now < MaxTime
    /\ now' = now + 1
    /\ UNCHANGED <<breaker, breaker_call>>
    /\ breaker_unchanged

\* call: the circuit is OPEN and it is too early for a reset.
CallRejected ==
    /\ breaker.state = OPEN
    /\ ~should_attempt_reset(breaker, now)
    /\ used(FALSE, BREAKER_OPEN)
    /\ UNCHANGED breaker

\* A call whose success clears the failures whatever the state.
CallReturnsForgiving ==
    /\ breaker.state = OPEN => should_attempt_reset(breaker, now)
    /\ used(TRUE, FUNC_RETURNED)
    /\ breaker' = reset(entered(breaker))

\* A call that lets the function run whatever the state of the circuit.
CallReturnsUnguarded ==
    /\ used(TRUE, FUNC_RETURNED)
    /\ breaker' = IF entered(breaker).state = HALF_OPEN
                  THEN reset(entered(breaker)) ELSE entered(breaker)

\* call: func is invoked and returns; a reset if the circuit was HALF_OPEN.
CallReturns ==
    /\ breaker.state = OPEN => should_attempt_reset(breaker, now)
    /\ used(TRUE, FUNC_RETURNED)
    /\ breaker' = IF entered(breaker).state = HALF_OPEN
                  THEN reset(entered(breaker)) ELSE entered(breaker)

\* call: func is invoked and raises expected_exception.
CallRaises ==
    /\ breaker.state = OPEN => should_attempt_reset(breaker, now)
    /\ used(TRUE, FUNC_RAISED)
    /\ breaker' = record_failure(entered(breaker), now)

\* call: func is invoked and raises an exception of another type, which no
\* handler of call catches.
CallRaisesOther ==
    /\ breaker.state = OPEN => should_attempt_reset(breaker, now)
    /\ used(TRUE, FUNC_RAISED_OTHER)
    /\ breaker' = entered(breaker)

\* "with breaker:" whose body raises expected_exception: __exit__ records
\* the failure, whatever the state.
ExitRaises ==
    /\ used(FALSE, EXIT)
    /\ breaker' = record_failure(breaker, now)

NextBreaker ==
    \/ Tick
    \/ CallRejected
    \/ CallReturns
    \/ CallRaises
    \/ CallRaisesOther
    \/ ExitRaises

SpecBreaker == InitBreaker /\ [][NextBreaker]_vars


\* ------------------------------------------- a run resumed from a checkpoint
\* The file holds the record CheckpointManager.save wrote of a crew the
\* constructor had accepted, its tasks in any status; Crew.resume loads it
\* and kickoff runs the engine on the crew it returns.  "loaded" keeps the
\* crew as load returned it.  The crew was saved with checkpoint_enabled
\* off, and is loaded with it off.
SavedStatuses == [TaskIds -> TaskStatus]

InitResume ==
    /\ agents = {}
    /\ tasks = <<>>
    /\ task_agent = <<>>
    /\ dependencies = <<>>
    /\ status = <<>>
    /\ result = <<>>
    /\ error = <<>>
    /\ process = SEQUENTIAL
    /\ memory = TRUE
    /\ memory_backend \in BOOLEAN
    /\ inputs \in InputMaps
    /\ scratchpad = <<>>
    /\ pc = "no crew"
    /\ crew_error = NoneVal
    /\ task = 0
    /\ tasks_output = <<>>
    /\ completed_tasks = 0
    /\ crew_output = <<>>
    /\ raised = NoneVal
    /\ store = "none"
    /\ scratch_data = <<>>
    /\ cache = <<>>
    /\ messages = <<>>
    /\ call = <<>>
    /\ ret = <<>>
    /\ written = <<>>
    /\ calls = 0
    /\ queried = FALSE
    /\ NoAux
    /\ checkpoint_enabled = FALSE
    /\ \E tsks \in TaskLists, deps \in DependencyGraphs,
          st \in SavedStatuses, proc \in ProcessType, mem \in BOOLEAN :
          LET tagent == [t \in TaskIds |-> IF t % 2 = 1 THEN "a1" ELSE "a2"]
              res == [t \in TaskIds |->
                        IF st[t] = COMPLETED THEN "plan" ELSE NoneVal]
              err == [t \in TaskIds |->
                        IF st[t] = FAILED THEN TURN_ERROR ELSE NoneVal]
          IN  /\ post_init(AgentIds, tsks, tagent, deps) = NoneVal
              /\ checkpoint = <<checkpoint_data(AgentIds, tsks, tagent, deps,
                                                st, res, err, proc, mem)>>
    /\ loaded = <<>>
    /\ load_error = NoneVal
    /\ NoPrompt

\* Crew.resume(path): CheckpointManager(path).load(), whose exception goes to
\* the caller; the crew it returns is the one kickoff then runs.
Resume ==
    /\ pc = "no crew"
    /\ loaded' = load(checkpoint).crew
    /\ load_error' = load(checkpoint).error
    /\ IF load(checkpoint).error = NoneVal
       THEN /\ agents' = load(checkpoint).crew[1].agents
            /\ tasks' = load(checkpoint).crew[1].tasks
            /\ task_agent' = load(checkpoint).crew[1].task_agent
            /\ dependencies' = load(checkpoint).crew[1].dependencies
            /\ status' = load(checkpoint).crew[1].status
            /\ result' = load(checkpoint).crew[1].result
            /\ error' = load(checkpoint).crew[1].error
            /\ process' = load(checkpoint).crew[1].process
            /\ memory' = load(checkpoint).crew[1].memory
            /\ pc' = "constructed"
       ELSE /\ pc' = "load raised"
            /\ UNCHANGED <<agents, tasks, task_agent, dependencies, status,
                           result, error, process, memory>>
    /\ UNCHANGED <<memory_backend, inputs, scratchpad, crew_error, task,
                   tasks_output, completed_tasks, crew_output, raised, store,
                   scratch_data, cache, messages, call, ret, written, calls,
                   queried, auxvars, checkpoint_enabled, checkpoint, prompt>>

NextResume ==
    \/ Resume
    \/ Next

SpecResume == InitResume /\ [][NextResume]_vars


\* ------------------------------------------ a backend newly constructed
\* LlamaStackMemoryBackend(client, conversation_id): the constructor, then
\* any calls on the object.  given: a conversation_id was passed; created:
\* the post to /v1/conversations answered with an id.
CONVERSATION_KEY == "_conversation_id"
GeneratedId == [kind |-> "str", n |-> 0, l |-> <<>>]

\* LlamaStackMemoryBackend._create_crew_conversation: the id the remote
\* answered, or in the except branch a generated one, which is also stored
\* in the cache.
create_crew_conversation(c, created) ==
    IF created THEN [conversation_id |-> "remote", cache |-> c]
    ELSE [conversation_id |-> "generated",
          cache |-> (CONVERSATION_KEY :> GeneratedId) @@ c]

\* LlamaStackMemoryBackend.__init__
backend_init(given, created) ==
    IF given THEN [conversation_id |-> "given", cache |-> <<>>]
    ELSE create_crew_conversation(<<>>, created)

\* fnmatch.fnmatch for the patterns used here: "*" and names without
\* wildcard characters.
fnmatch(k, pattern) == pattern = "*" \/ k = pattern

\* LlamaStackMemoryBackend.keys (as a set) and get_all
backend_keys(c, pattern) == {k \in DOMAIN c : fnmatch(k, pattern)}
backend_get_all(c) == c

InitBackend ==
    /\ agents = AgentIds
    /\ tasks = <<>>
    /\ task_agent = [t \in TaskIds |-> "a1"]
    /\ dependencies = [t \in TaskIds |-> <<>>]
    /\ status = [t \in TaskIds |-> PENDING]
    /\ result = [t \in TaskIds |-> NoneVal]
    /\ error = [t \in TaskIds |-> NoneVal]
    /\ process = SEQUENTIAL
    /\ memory = TRUE
    /\ memory_backend = FALSE
    /\ checkpoint_enabled = FALSE
    /\ inputs = <<>>
    /\ scratchpad = <<>>
    /\ pc = "store"
    /\ crew_error = NoneVal
    /\ task = 0
    /\ tasks_output = <<>>
    /\ completed_tasks = 0
    /\ crew_output = <<>>
    /\ raised = NoneVal
    /\ store = LLAMA_STACK
    /\ scratch_data = <<>>
    /\ \E given \in BOOLEAN, created \in BOOLEAN :
           cache = backend_init(given, created).cache
    /\ messages = <<>>
    /\ call = [op |-> "init", key |-> "", arg |-> NoneRet]
    /\ ret = NoneRet
    /\ written = [k \in MemKeys |-> Unset]
    /\ calls = 0
    /\ queried = FALSE
    /\ NoAux
    /\ NoCheckpoint
    /\ NoPrompt

SpecBackend == InitBackend /\ [][NextMemory]_vars

\* =================================================================== claims
InCrew(t) == t \in Range(tasks)
DepsCompleted(t) == \A d \in Range(dependencies[t]) : status[d] = COMPLETED

C2_DependenciesInCrew ==
    pc = "constructed" =>
        \A t \in Range(tasks) : \A d \in Range(dependencies[t]) :
            d \in Range(tasks) /\ d # t

\* C3: a task is moved to in_progress only when every one of its dependencies
\* is completed.
C3_StartedOnlyWhenDepsCompleted ==
    [][\A t \in TaskIds :
          (status[t] # IN_PROGRESS /\ status'[t] = IN_PROGRESS)
              => DepsCompleted(t)]_vars

\* C3 witness: a task with a dependency is in progress, under a process
\* strategy other than sequential.
C3_Witness ==
    /\ pc = "turn" /\ dependencies[task] # <<>> /\ status[task] = IN_PROGRESS
    /\ process # SEQUENTIAL

\* C4: is_ready() is true exactly when every dependency is completed; a task
\* without dependencies is ready whenever it is pending.
C4_IsReadyIffDepsCompleted ==
    \A t \in TaskIds :
        /\ is_ready(t, dependencies, status) <=> DepsCompleted(t)
        /\ (dependencies[t] = <<>> /\ status[t] = PENDING)
               => is_ready(t, dependencies, status)

\* C4 witness: in the middle of a run, a task is not ready because of a
\* skipped dependency, and a task is ready because the run completed its
\* dependency.
C4_Witness ==
    /\ pc = "loop"
    /\ \E t \in TaskIds : \E d \in Range(dependencies[t]) :
           status[d] = SKIPPED /\ ~is_ready(t, dependencies, status)
    /\ \E t \in TaskIds : \E d \in Range(dependencies[t]) :
           InCrew(d) /\ status[d] = COMPLETED /\ is_ready(t, dependencies, status)

\* C5: get_ready_tasks() is exactly the crew's tasks that are pending with all
\* dependencies completed, in task-list order; for T2 depending on T1 it is
\* [T1] while T1 is pending and [T2] once T1 is completed.
C5_ReadyTasksExact ==
    LET ready == get_ready_tasks(tasks, dependencies, status) IN
    /\ Range(ready) = {t \in Range(tasks) : status[t] = PENDING /\ DepsCompleted(t)}
    /\ \A i, j \in 1..Len(ready) :
           i < j => \E a, b \in 1..Len(tasks) :
                        a < b /\ tasks[a] = ready[i] /\ tasks[b] = ready[j]
    /\ (/\ tasks = <<1, 2>>
        /\ dependencies[1] = <<>> /\ dependencies[2] = <<1>>
        /\ status[2] = PENDING)
       => /\ status[1] = PENDING => ready = <<1>>
          /\ status[1] = COMPLETED => ready = <<2>>

\* C5 witness: the two-task example after T1 completed, T2 still pending.
C5_Witness ==
    /\ tasks = <<1, 2>> /\ dependencies[1] = <<>> /\ dependencies[2] = <<1>>
    /\ status[1] = COMPLETED /\ status[2] = PENDING
    /\ get_ready_tasks(tasks, dependencies, status) = <<2>>

\* C6 (as claimed): a task's status changes only along pending ->
\* in_progress -> completed or pending -> in_progress -> failed.
C6_StatusTransitions ==
    [][\A t \in TaskIds :
          status'[t] # status[t]
              => <<status[t], status'[t]>> \in
                     {<<PENDING, IN_PROGRESS>>, <<IN_PROGRESS, COMPLETED>>,
                      <<IN_PROGRESS, FAILED>>}]_vars

\* C7 (as claimed): a task's result is set only if it is completed, its error
\* only if it is failed.
C7_PayloadMatchesStatus ==
    \A t \in TaskIds :
        /\ result[t] # NoneVal => status[t] = COMPLETED
        /\ error[t] # NoneVal => status[t] = FAILED

\* C8 (as claimed): a task with a failed dependency stays pending, and a run
\* in which a task of the crew has a failed dependency returns success false
\* and does not raise the no-ready-tasks error.
C8_FailedDependency ==
    LET blocked == \E t \in Range(tasks) : \E d \in Range(dependencies[t]) :
                       status[d] = FAILED
    IN /\ \A t \in Range(tasks) : \A d \in Range(dependencies[t]) :
              status[d] = FAILED => status[t] = PENDING
       /\ blocked => raised # NO_READY
       /\ (blocked /\ pc = "returned") => ~crew_output[1].success

\* The tasks_output entries of turns that failed.
TurnFailures == {i \in 1..Len(tasks_output) : tasks_output[i].error = TURN_ERROR}

\* C9: a task whose turn failed is recorded as failed with the error text,
\* execute raises nothing afterwards, and when the run returns no task of the
\* crew is left pending with all its dependencies completed.
C9_TurnFailureIsContained ==
    TurnFailures # {} =>
        /\ \A i \in TurnFailures :
               /\ ~tasks_output[i].success
               /\ status[tasks_output[i].task_id] = FAILED
               /\ error[tasks_output[i].task_id] = TURN_ERROR
        /\ pc # "raised" /\ raised = NoneVal
        /\ pc = "returned" =>
               \A t \in Range(tasks) : ~(status[t] = PENDING /\ DepsCompleted(t))

\* C9 witness: the run returned, a turn failed, and a task was executed and
\* completed after the failure.
C9_Witness ==
    /\ pc = "returned"
    /\ \E i \in TurnFailures : \E j \in 1..Len(tasks_output) :
           i < j /\ tasks_output[j].success
                 /\ status[tasks_output[j].task_id] = COMPLETED

\* C10: when execute returns, success is true iff no task of the crew is
\* failed.
C10_SuccessIffNoFailure ==
    pc = "returned" =>
        (crew_output[1].success <=> ~\E t \in Range(tasks) : status[t] = FAILED)

\* C10 witness: a run returned success false with one task completed and
\* another failed.
C10_Witness ==
    /\ pc = "returned" /\ ~crew_output[1].success
    /\ \E t, u \in Range(tasks) : status[t] = COMPLETED /\ status[u] = FAILED

\* C11 -- a crew whose tasks have no dependencies, run with a turn executor
\* that succeeds on every call and a memory store that never raises: execute
\* does not raise, and when it returns every task is completed, success is
\* true and tasks_output holds one entry per task, in list order, each with
\* the role of the task's agent.
Independent == \A t \in Range(tasks) : dependencies[t] = <<>>
NoEntryWith(msg) ==
    \A i \in 1..Len(tasks_output) : tasks_output[i].error # msg
AllSucceeded ==
    /\ \A t \in Range(tasks) : status[t] = COMPLETED
    /\ crew_output[1].success
    /\ Len(crew_output[1].tasks_output) = Len(tasks)
    /\ \A i \in 1..Len(tasks) :
           LET e == crew_output[1].tasks_output[i]
           IN  /\ e.task_id = tasks[i]
               /\ e.success
               /\ e.agent_role = role[task_agent[tasks[i]]]
InProgress(st) == {t \in Range(tasks) : st[t] = IN_PROGRESS}
FirstPendingReady ==
    tasks[CHOOSE i \in 1..Len(tasks) :
            /\ status[tasks[i]] = PENDING /\ DepsCompleted(tasks[i])
            /\ \A j \in 1..(i - 1) :
                   ~(status[tasks[j]] = PENDING /\ DepsCompleted(tasks[j]))]
C12_OneTaskPerIteration ==
    [][process = SEQUENTIAL =>
        /\ (pc = "loop" /\ pc' = "turn") =>
               /\ InProgress(status) = {}
               /\ task' = FirstPendingReady
               /\ InProgress(status') = {task'}
        /\ (pc \in {"turn", "publish"} /\ pc' = "loop") =>
               /\ Len(tasks_output') = Len(tasks_output) + 1
               /\ tasks_output'[Len(tasks_output')].task_id = task
               /\ InProgress(status') = {}
        /\ Cardinality(InProgress(status')) <= 1
      ]_vars
C12_Witness ==
    /\ process = SEQUENTIAL
    /\ pc = "turn"
    /\ Len(tasks_output) >= 1
    /\ \E t \in Range(tasks) :
           t > task /\ status[t] = PENDING /\ DepsCompleted(t)

\* C13 -- a crew the constructor accepted, all of whose tasks (and their
\* dependencies) are pending when execute is called, never gets the
\* RuntimeError "No ready tasks but workflow not complete".
C13_NoEngineInvariantError ==
    (\A t \in TaskIds \ Range(tasks) : status[t] = PENDING) => raised # NO_READY

\* C14 -- for a crew the constructor accepted and a turn executor that
\* always returns or fails, execute eventually returns, and then no task of
\* the crew is in progress and each is completed, failed, or pending with a
\* dependency that is not completed.  (A run that a raising memory backend
\* ended while the inputs were stored is left aside.)
Settled ==
    \A t \in Range(tasks) :
        \/ status[t] \in {COMPLETED, FAILED}
        \/ status[t] = PENDING /\ ~DepsCompleted(t)
C14_EventuallyReturns ==
    <>((pc = "returned" /\ Settled) \/ raised = MEMORY_ERROR)

\* C15 -- Crew.is_complete() is true exactly when every task of the crew is
\* completed or skipped: it is false while any task is pending or in
\* progress (or failed), and a call that makes it true leaves no task of the
\* crew pending or in progress.
Unsettled(st) == {t \in Range(tasks) : st[t] \in {PENDING, IN_PROGRESS}}
C15_CompleteIffAllSettled ==
    [][/\ is_complete(tasks, status)
          = (\A t \in Range(tasks) : status[t] = COMPLETED \/ status[t] = SKIPPED)
       /\ Unsettled(status) # {} => ~is_complete(tasks, status)
       /\ (~is_complete(tasks, status) /\ is_complete(tasks, status'))
            => Unsettled(status') = {}
      ]_vars
C15_Witness ==
    /\ is_complete(tasks, status)
    /\ Len(tasks) = NumTasks
    /\ \E t, u \in Range(tasks) : status[t] = SKIPPED /\ status[u] = COMPLETED

\* What a caller sees of a store: get(key, default) when the remote answers
\* (ok) or not, and keys().
observe(d, c, msgs, key, ok) ==
    IF store = SCRATCHPAD THEN scratchpad_get(d, key, DefaultVal)
    ELSE backend_get(c, msgs, key, DefaultVal, ok).value
store_keys(d, c) == IF store = SCRATCHPAD THEN DOMAIN d ELSE DOMAIN c
IsValue(v) == v.kind \in {"int", "list"}

\* C16 -- in both stores, after any calls of set, get, delete, increment and
\* append_to_list, whatever remote calls failed: for a key whose last write
\* was not a delete, get returns the value written last (by set, or by the
\* set inside increment and append_to_list).
C16_GetReturnsLastSet ==
    \A key \in MemKeys :
        IsValue(written[key]) =>
            /\ \A ok \in BOOLEAN :
                   observe(scratch_data, cache, messages, key, ok) = written[key]
            /\ (call.op = "get" /\ call.key = key) => ret = written[key]
C16_Witness ==
    /\ store = LLAMA_STACK
    /\ call.op = "get"
    /\ written[call.key] = ListVal(<<1>>)
    /\ ret = ListVal(<<1>>)
    /\ calls = 3
    /\ \E i \in 1..Len(messages) :
           messages[i] = MemorySet(call.key, IntVal(1))
    /\ \A i \in 1..Len(messages) :
           messages[i] # MemorySet(call.key, ListVal(<<1>>))

\* C17 -- in both stores, whether the remote answers or not: for a key
\* whose last write was a delete, get(key, default) returns the default.
C17_DeletedKeyReadsDefault ==
    \A key \in MemKeys :
        written[key] = Deleted =>
            \A ok \in BOOLEAN :
                observe(scratch_data, cache, messages, key, ok) = DefaultVal

C19_IncrementAddsToPrevious ==
    [][(call'.op = "increment" /\ calls' = calls + 1
          /\ written[call'.key].kind # "list") =>
        LET k == call'.key
            previous == IF IsValue(written[k]) THEN written[k].n ELSE 0
        IN  /\ ret' = IntVal(previous + call'.arg.n)
            /\ \A ok \in BOOLEAN :
                   observe(scratch_data', cache', messages', k, ok) = ret'
            /\ \A j \in MemKeys \ {k} : \A ok \in BOOLEAN :
                   observe(scratch_data', cache', messages', j, ok)
                     = observe(scratch_data, cache, messages, j, ok)
      ]_vars

\* C20 -- append_to_list(k, x) leaves get_list(k) equal to the list stored
\* at k before (empty when k was never set or was deleted last) with x at
\* its end.
C20_AppendExtendsPrevious ==
    [][(call'.op = "append_to_list" /\ calls' = calls + 1
          /\ written[call'.key].kind # "int") =>
        LET k == call'.key
            previous == IF IsValue(written[k]) THEN written[k].l ELSE <<>>
        IN  \A ok \in BOOLEAN :
                get_list(cache', messages', k, ok).value
                  = ListVal(Append(previous, call'.arg.n))
      ]_vars

\* C21 -- for a valid crew (every dependency in the crew's list) in any
\* combination of task statuses, load(save(crew)) succeeds and the crew it
\* returns has the same agent ids, the same task ids in the same order, and
\* per task the same dependency ids, agent, status, result and error.
ValidCrew == \A t \in Range(tasks) : Range(dependencies[t]) \subseteq Range(tasks)
SameCrew(c) ==
    /\ c.agents = agents
    /\ c.tasks = tasks
    /\ \A t \in Range(tasks) :
           /\ c.dependencies[t] = dependencies[t]
           /\ c.task_agent[t] = task_agent[t]
           /\ c.status[t] = status[t]
           /\ c.result[t] = result[t]
           /\ c.error[t] = error[t]
UnknownAgent(rec) ==
    \E i \in 1..Len(rec.tasks) : rec.tasks[i].agent_id \notin rec.agents
UnknownDependency(rec) ==
    \E i \in 1..Len(rec.tasks) :
        Range(rec.tasks[i].dependencies) \ record_ids(rec) # {}
FailsValidation(rec) ==
    \/ rec.agents = {}
    \/ rec.tasks = <<>>
    \/ Cyclic([i \in 1..Len(rec.tasks) |-> rec.tasks[i].task_id],
              [t \in record_ids(rec) |-> task_map(rec, t).dependencies])
ValueErrors == {ERR_NO_AGENTS, ERR_NO_TASKS, ERR_AGENT, ERR_CIRCULAR}
SequentialOutput ==
    make_crew_output(tasks, status, tasks_output, completed_tasks, SEQUENTIAL)
WithProcess(out, proc) ==
    [out EXCEPT !.metadata = [out.metadata EXCEPT !.process = proc]]
Stranded ==
    /\ \E t \in Range(tasks) : status[t] \notin {COMPLETED, SKIPPED}
    /\ ~\E t \in Range(tasks) : status[t] = PENDING /\ DepsCompleted(t)
    /\ ~\E t \in Range(tasks) : status[t] = FAILED
C24_RaisesIffStranded ==
    [][/\ pc = "loop" => (raised' = NO_READY <=> Stranded)
       /\ (raised # NO_READY /\ raised' = NO_READY) =>
              /\ pc = "loop"
              /\ pc' = "raised"
              /\ status' = status
       /\ raised = NO_READY => raised' = NO_READY
      ]_vars
C24_Witness ==
    /\ raised = NO_READY
    /\ pc = "raised"
    /\ Len(tasks_output) >= 1
    /\ \E t \in Range(tasks) : status[t] = COMPLETED

\* C25 -- within one run no task gets a second execution: a task is started
\* only while pending and without an entry in tasks_output, a failed task
\* is never started again, and tasks_output has at most one entry per task.
Entries(t) == {i \in 1..Len(tasks_output) : tasks_output[i].task_id = t}
C25_AtMostOneExecution ==
    [][/\ \A t \in TaskIds : Cardinality(Entries(t)) <= 1
       /\ (pc = "loop" /\ pc' = "turn") =>
              /\ status[task'] = PENDING
              /\ Entries(task') = {}
       /\ \A t \in Range(tasks) :
              (status[t] = FAILED /\ pc # "constructed") => status'[t] = FAILED
      ]_vars
C25_Witness ==
    /\ pc = "turn"
    /\ \E i \in 1..Len(tasks_output) :
           /\ ~tasks_output[i].success
           /\ status[tasks_output[i].task_id] = FAILED
           /\ tasks_output[i].task_id < task

\* C26: with crew memory enabled, when execute returns, the store holds
\* under task_<id>_result the result of every crew task the run completed,
\* and holds no such key for a crew task that failed or stayed pending.
C26_ResultsPublished ==
    (pc = "returned" /\ memory) =>
        \A t \in Range(tasks) :
            /\ status[t] = COMPLETED =>
                  /\ task_result_key(t) \in DOMAIN scratchpad
                  /\ scratchpad[task_result_key(t)] = result[t]
            /\ status[t] \in {FAILED, PENDING} =>
                  task_result_key(t) \notin DOMAIN scratchpad

\* A run with memory returned with one task published and another failed.
C26_Witness ==
    /\ pc = "returned" /\ memory
    /\ \E t \in Range(tasks) : status[t] = COMPLETED
                        /\ task_result_key(t) \in DOMAIN scratchpad
    /\ \E t \in Range(tasks) : status[t] = FAILED
    /\ \E t \in Range(tasks) : status[t] = PENDING

\* C27: when the executor is called for a task, with crew memory enabled and
\* the task's agent taking part in memory the prompt carries every kickoff
\* input and the published result of every task completed earlier in the run,
\* dependency of the task or not; otherwise it carries no memory entry.
C27_PromptCarriesMemory ==
    [][(prompt' # prompt) =>
        LET p == prompt'[1]
        IN  /\ p.task = task
            /\ (memory /\ memory_enabled[task_agent[task]]) =>
                  /\ \A k \in DOMAIN inputs :
                        <<k, inputs[k]>> \in p.shared_memory
                  /\ \A t \in Range(tasks) :
                        status[t] = COMPLETED =>
                          <<task_result_key(t), result[t]>> \in p.shared_memory
            /\ ~(memory /\ memory_enabled[task_agent[task]]) =>
                  p.shared_memory = {}]_vars

\* The executor was called with a prompt that carries a kickoff input and the
\* result of an earlier task that is not a dependency of the task at hand.
C27_Witness ==
    /\ prompt # <<>>
    /\ memory /\ memory_enabled[task_agent[prompt[1].task]]
    /\ \E k \in DOMAIN inputs : <<k, inputs[k]>> \in prompt[1].shared_memory
    /\ \E t \in Range(tasks) :
          /\ t \notin Range(dependencies[prompt[1].task])
          /\ <<task_result_key(t), result[t]>> \in prompt[1].shared_memory

\* The position of task t in the list of entries out (0: not listed).
Position(out, t) ==
    IF \E i \in 1..Len(out) : out[i].task_id = t
    THEN CHOOSE i \in 1..Len(out) : out[i].task_id = t
    ELSE 0

\* The report numbers the entries of out and carries, per entry, the output
\* of a success or the error of a failure marked FAILED.
ReportMatches(rep, out) ==
    /\ Len(rep) = Len(out)
    /\ \A i \in 1..Len(out) :
          /\ rep[i].heading = i
          /\ rep[i].failed = ~out[i].success
          /\ rep[i].text = IF out[i].success THEN out[i].output ELSE out[i].error

\* out lists each executed task once, a success for a completed task and a
\* failure for a failed one.
ListsExecuted(out) ==
    /\ {out[i].task_id : i \in 1..Len(out)} =
           {t \in Range(tasks) : status[t] \in {COMPLETED, FAILED}}
    /\ \A i, j \in 1..Len(out) : out[i].task_id = out[j].task_id => i = j
    /\ \A i \in 1..Len(out) : out[i].success = (status[out[i].task_id] = COMPLETED)

\* C28: when execute returns, tasks_output and the final report list exactly
\* the executed tasks, every listed task after all its dependencies, and the
\* i-th heading is numbered i with the output or the error (marked FAILED)
\* of the i-th executed task.
C28_ReportInExecutionOrder ==
    pc = "returned" =>
        LET out == crew_output[1].tasks_output
        IN  /\ out = tasks_output
            /\ ListsExecuted(out)
            /\ ReportMatches(crew_output[1].final_output, out)
            /\ \A i \in 1..Len(out) :
                  \A d \in Range(dependencies[out[i].task_id]) :
                      Position(out, d) \in 1..(i - 1)

\* C28, the part that holds: the same with the order required only of the
\* dependencies the crew lists.
C28_OrderWithinCrew ==
    pc = "returned" =>
        LET out == crew_output[1].tasks_output
        IN  /\ out = tasks_output
            /\ ListsExecuted(out)
            /\ ReportMatches(crew_output[1].final_output, out)
            /\ \A i \in 1..Len(out) :
                  \A d \in Range(dependencies[out[i].task_id]) \cap Range(tasks) :
                      Position(out, d) \in 1..(i - 1)

\* C28, execution order: the entry of the task at hand is appended when its
\* execution ends, and nothing else changes the list during the loop.
C28_AppendedWhenExecuted ==
    [][(pc # "constructed" /\ tasks_output' # tasks_output) =>
        /\ pc \in {"turn", "publish"} /\ pc' = "loop"
        /\ Len(tasks_output') = Len(tasks_output) + 1
        /\ SubSeq(tasks_output', 1, Len(tasks_output)) = tasks_output
        /\ tasks_output'[Len(tasks_output')].task_id = task]_vars

\* C29: when execute returns, metadata total_tasks is the number of tasks of
\* the crew and metadata completed_tasks is the number of tasks whose status
\* is completed.
C29_MetadataCounts ==
    pc = "returned" =>
        /\ crew_output[1].metadata.total_tasks = Len(tasks)
        /\ crew_output[1].metadata.completed_tasks =
               Cardinality({t \in Range(tasks) : status[t] = COMPLETED})

\* C29, the part that holds: total_tasks is the number of tasks of the crew
\* and completed_tasks the number of executions, failed ones included.
C29_CountsExecutions ==
    pc = "returned" =>
        /\ crew_output[1].metadata.total_tasks = Len(tasks)
        /\ crew_output[1].metadata.completed_tasks =
               Cardinality({t \in Range(tasks) : status[t] \in {COMPLETED, FAILED}})

\* The value of the latest MEMORY_SET message of key k, as a set: empty when
\* the conversation holds none.
RemoteValue(k) ==
    {messages[i].value : i \in
        {i \in 1..Len(messages) :
            /\ messages[i].op = "MEMORY_SET" /\ messages[i].key = k
            /\ \A j \in (i + 1)..Len(messages) :
                  ~(messages[j].op = "MEMORY_SET" /\ messages[j].key = k)}}

\* C30: get(k) of the remote-backed store returns the cached value of a
\* cached key without asking the remote; for a key absent from the cache it
\* asks the remote and either caches and returns the value found there, or
\* returns the default and leaves the cache as it was (nothing found, or the
\* remote call failed).
C30_GetPrefersCache ==
    [][(store = LLAMA_STACK /\ calls' # calls /\ call'.op = "get") =>
        LET k == call'.key
        IN  IF k \in DOMAIN cache
            THEN ret' = cache[k] /\ cache' = cache /\ ~queried'
            ELSE /\ queried'
                 /\ \/ ret' = DefaultVal /\ cache' = cache
                    \/ /\ ret' \in RemoteValue(k)
                       /\ cache' = (k :> ret') @@ cache
                 /\ RemoteValue(k) = {} => ret' = DefaultVal]_vars

\* A get that asked the remote found a value, cached it and returned it.
C30_Witness ==
    /\ store = LLAMA_STACK
    /\ call.op = "get" /\ queried
    /\ ret # DefaultVal
    /\ call.key \in DOMAIN cache /\ cache[call.key] = ret

\* C31: concurrent callers each doing increment(k, 1) on an unset key: once
\* all have returned the stored value is at least 1 and at most the number of
\* callers (1 or 2 for two callers); no interleaving ends with anything else.
C31_LostUpdateBounded ==
    (callers # <<>> /\ \A c \in Callers : callers[c].pc = "done") =>
        /\ CounterKey \in DOMAIN cache
        /\ cache[CounterKey].kind = "int"
        /\ cache[CounterKey].n \in 1..Len(callers)

\* The lost update: two callers have both returned and the stored value is 1.
C31_Witness ==
    /\ Len(callers) = 2
    /\ \A c \in Callers : callers[c].pc = "done"
    /\ cache[CounterKey] = IntVal(1)

\* C31, the other end: an interleaving of two callers in which no update is
\* lost.
C31_NoneLost ==
    /\ Len(callers) = 2
    /\ \A c \in Callers : callers[c].pc = "done"
    /\ cache[CounterKey] = IntVal(2)

\* The first wave: the tasks of the crew that are ready when the run starts.
\* The tasks of the crew start pending, so these are the tasks whose
\* dependencies all lie outside the crew's list and are completed (the status
\* of a task outside the list never changes).
FirstWave ==
    {t \in Range(tasks) :
        \A d \in Range(dependencies[t]) :
            d \notin Range(tasks) /\ status[d] = COMPLETED}

\* C32: in parallel mode a task that was not ready when the wave began is not
\* started before every task of that wave has finished (stated for the first
\* wave of the run).
C32_WaveSettlesBeforeNext ==
    [][(process = PARALLEL /\ pc = "loop" /\ pc' = "turn") =>
        \/ task' \in FirstWave
        \/ \A t \in FirstWave : status[t] \in {COMPLETED, FAILED}]_vars

\* C33: with checkpointing enabled, between two iterations of the loop (and
\* when the run has returned) a checkpoint exists and records the current
\* status of every task of the crew, once a task has been executed.
C33_CheckpointAfterEachTask ==
    (checkpoint_enabled /\ pc \in {"loop", "returned"} /\ tasks_output # <<>>) =>
        /\ checkpoint # <<>>
        /\ \A i \in 1..Len(tasks) :
              /\ i \in DOMAIN checkpoint[1].tasks
              /\ checkpoint[1].tasks[i].task_id = tasks[i]
              /\ checkpoint[1].tasks[i].status = status[tasks[i]]

\* What the claim says of a wrapper that has finished: it made at most
\* max_attempts calls; it returned the result of the first successful call,
\* or raised RetryError after max_attempts listed failures, or let an
\* unlisted exception through; on_retry was called after each listed failure
\* but the last of an exhausted run.
RetryContract ==
    /\ retry.func_calls <= retry.max_attempts
    /\ retry.outcome \in {RETURNED, RETRY_ERROR, PROPAGATED}
    /\ retry.outcome = RETURNED => retry.func_calls = retry.failed + 1
    /\ retry.outcome = PROPAGATED => retry.func_calls = retry.failed + 1
    /\ (retry.outcome = RETRY_ERROR) = (retry.failed = retry.max_attempts)
    /\ retry.outcome = RETRY_ERROR => retry.func_calls = retry.max_attempts
    /\ retry.on_retry_calls =
          IF ~retry.on_retry THEN 0
          ELSE IF retry.outcome = RETRY_ERROR THEN retry.failed - 1
          ELSE retry.failed

\* C34: the retry wrapper calls the function until it first succeeds and
\* returns that result, with at most max_attempts calls; max_attempts listed
\* failures give RetryError; on_retry runs once after each failed attempt but
\* the last; an unlisted exception propagates at once.
C34_RetryContract == retry.outcome # RUNNING => RetryContract

\* C34, the part that holds: the same for max_attempts of at least 1.
C34_FromOneAttempt ==
    (retry.outcome # RUNNING /\ retry.max_attempts >= 1) => RetryContract

\* C34: a wrapper with three attempts and a callback that failed twice and
\* then returned, and one that failed three times.
C34_ReturnedAfterRetries ==
    /\ retry # <<>>
    /\ retry.outcome = RETURNED /\ retry.failed = 2 /\ retry.on_retry_calls = 2

\* A failure was recorded by the step: by call, or by __exit__.
FailureRecorded == breaker_call'.outcome \in {FUNC_RAISED, EXIT}

\* C35: the breaker starts CLOSED with failure_count 0; its state is always
\* CLOSED, OPEN or HALF_OPEN; OPEN implies failure_count >= failure_threshold;
\* and it becomes OPEN exactly at the steps that record a failure bringing
\* failure_count to at least failure_threshold.
C35_OpenIffThresholdReached ==
    /\ breaker.state = CLOSED /\ breaker.failure_count = 0
    /\ [](/\ breaker.state \in {CLOSED, OPEN, HALF_OPEN}
          /\ breaker.state = OPEN =>
                breaker.failure_count >= breaker.failure_threshold)
    /\ [][/\ (breaker.state # OPEN /\ breaker'.state = OPEN) =>
                /\ FailureRecorded
                /\ breaker'.failure_count = breaker.failure_count + 1
                /\ breaker'.failure_count >= breaker.failure_threshold
          /\ (FailureRecorded /\ breaker_call' # breaker_call
                /\ breaker.failure_count + 1 >= breaker.failure_threshold) =>
                breaker'.state = OPEN]_vars

\* The second failure opened a breaker whose threshold is 2.
C35_Witness ==
    /\ breaker # <<>>
    /\ breaker.state = OPEN
    /\ breaker.failure_threshold = 2 /\ breaker.failure_count = 2
    /\ breaker_call.outcome = FUNC_RAISED

\* The step is a call through the breaker (not a use as context manager).
CallMade == breaker_call'.n = breaker_call.n + 1 /\ breaker_call'.outcome # EXIT

\* Less than recovery_timeout has elapsed since the last failure.
TooEarly ==
    /\ breaker.last_failure_time # <<>>
    /\ now - breaker.last_failure_time[1] < breaker.recovery_timeout

\* C36: a call made while the breaker is OPEN and less than recovery_timeout
\* has elapsed since the last failure raises CircuitBreakerOpen, does not
\* invoke the function and leaves state, failure_count and last_failure_time
\* as they were.
C36_OpenRejectsCalls ==
    [][(CallMade /\ breaker.state = OPEN /\ TooEarly) =>
        /\ breaker_call'.outcome = BREAKER_OPEN
        /\ ~breaker_call'.invoked
        /\ breaker' = breaker]_vars

\* A call was rejected by the open breaker.
C36_Witness ==
    /\ breaker # <<>>
    /\ breaker_call.outcome = BREAKER_OPEN
    /\ breaker.state = OPEN
    /\ now - breaker.last_failure_time[1] < breaker.recovery_timeout

\* What a call does to a breaker that is OPEN with recovery_timeout elapsed:
\* the function is invoked; a return closes the circuit and clears the
\* failures, a failure opens it again.
HalfOpenTrial ==
    (breaker.state = OPEN /\ ~TooEarly) =>
        /\ breaker_call'.invoked
        /\ breaker_call'.outcome = FUNC_RETURNED =>
              /\ breaker'.state = CLOSED
              /\ breaker'.failure_count = 0
              /\ breaker'.last_failure_time = <<>>
        /\ breaker_call'.outcome = FUNC_RAISED => breaker'.state = OPEN

\* C37: once recovery_timeout has elapsed in OPEN the next call invokes the
\* function through HALF_OPEN, closing the circuit on success and opening it
\* again on failure; no call, ended by return or by raise, leaves the breaker
\* in HALF_OPEN.
C37_NeverLeftHalfOpen ==
    [][CallMade => (HalfOpenTrial /\ breaker'.state # HALF_OPEN)]_vars

\* C37, the part that holds: the same for calls that do not end with an
\* exception of a type other than expected_exception.
C37_UnlessUnexpectedException ==
    [][(CallMade /\ breaker_call'.outcome # FUNC_RAISED_OTHER) =>
          (HalfOpenTrial /\ breaker'.state # HALF_OPEN)]_vars

\* C38: a successful call in CLOSED leaves failure_count (and the rest of the
\* breaker) as it was; every recorded failure adds one; failure_count goes
\* down only to 0 and only by a successful call that ran in HALF_OPEN; so
\* a CLOSED breaker has seen fewer than failure_threshold failures since the
\* last reset, successes in between or not.
C38_SuccessKeepsCount ==
    /\ [](breaker.state = CLOSED =>
            (breaker.failure_count < breaker.failure_threshold
               \/ breaker.failure_count = 0))
    /\ [][/\ (CallMade /\ breaker.state = CLOSED
                /\ breaker_call'.outcome = FUNC_RETURNED) => breaker' = breaker
          /\ (FailureRecorded /\ breaker_call' # breaker_call) =>
                breaker'.failure_count = breaker.failure_count + 1
          /\ breaker'.failure_count < breaker.failure_count =>
                /\ breaker'.failure_count = 0
                /\ CallMade /\ breaker_call'.outcome = FUNC_RETURNED
                /\ breaker.state \in {OPEN, HALF_OPEN}
                /\ breaker.state = OPEN => ~TooEarly]_vars

\* A CLOSED breaker that has recorded a failure was called with success and
\* still counts the failure.
C38_Witness ==
    /\ breaker # <<>>
    /\ breaker.state = CLOSED /\ breaker.failure_count = 1
    /\ breaker_call.outcome = FUNC_RETURNED

\* C39: when the engine runs on a crew loaded from a checkpoint in which
\* every task is pending, completed or failed, a task that was completed or
\* failed in the checkpoint keeps the status, result and error it was loaded
\* with, the task being executed was pending in the checkpoint, every entry
\* of tasks_output is of a task that was pending in the checkpoint, and an
\* entry is added only for the task that has just been executed.
LoadedSettled ==
    /\ loaded # <<>>
    /\ \A t \in Range(loaded[1].tasks) :
           loaded[1].status[t] \in {PENDING, COMPLETED, FAILED}
C39_ResumeRunsOnlyPending ==
    /\ [](LoadedSettled =>
            /\ \A t \in Range(tasks) :
                   loaded[1].status[t] \in {COMPLETED, FAILED} =>
                       /\ status[t] = loaded[1].status[t]
                       /\ result[t] = loaded[1].result[t]
                       /\ error[t] = loaded[1].error[t]
            /\ pc \in {"turn", "publish"} => loaded[1].status[task] = PENDING
            /\ \A i \in 1..Len(tasks_output) :
                   loaded[1].status[tasks_output[i].task_id] = PENDING)
    /\ [][(LoadedSettled /\ tasks_output' # tasks_output) =>
             /\ pc \in {"turn", "publish"}
             /\ Len(tasks_output') = Len(tasks_output) + 1
             /\ SubSeq(tasks_output', 1, Len(tasks_output)) = tasks_output
             /\ tasks_output'[Len(tasks_output')].task_id = task]_vars
C39_Witness ==
    /\ LoadedSettled
    /\ pc = "returned"
    /\ \E t, u, v \in Range(tasks) :
           /\ loaded[1].status[t] = COMPLETED /\ status[t] = COMPLETED
           /\ loaded[1].status[u] = FAILED /\ status[u] = FAILED
           /\ loaded[1].status[v] = PENDING /\ status[v] = COMPLETED
           /\ t \in Range(dependencies[v])
    /\ Len(tasks_output) = 1

\* C40: a newly constructed remote-backed store holds no entries: before the
\* first call keys() and get_all() are empty, whether or not the remote
\* conversation was created, and get_all() never holds a key other than
\* those the callers wrote or read.
C40_NewStoreEmpty ==
    /\ calls = 0 =>
           /\ backend_keys(cache, "*") = {}
           /\ DOMAIN backend_get_all(cache) = {}
    /\ DOMAIN backend_get_all(cache) \subseteq MemKeys

\* What holds of a newly constructed store: apart from the entry
\* "_conversation_id" that a failed creation leaves, it is empty before the
\* first call and only ever holds keys the callers wrote or read.
C40_ExceptConversationId ==
    /\ calls = 0 => backend_keys(cache, "*") \subseteq {CONVERSATION_KEY}
    /\ DOMAIN backend_get_all(cache) \ {CONVERSATION_KEY} \subseteq MemKeys
====
